---- MODULE Spec2Model ----
(***************************************************************************)
(* Verification model of the volume ray-caster:                            *)
(*   src/src/volume/volume.cpp    (Volume: voxel lookup and interpolation) *)
(*   src/src/render/renderer.cpp  (Renderer: framebuffer, render pass,     *)
(*                                 ray/box intersection, ray tracers)      *)
(*                                                                         *)
(* Numbers.  The program computes in float.  The model computes exactly,   *)
(* in fixed point:                                                         *)
(*   - a sample coordinate c is the integer c*Q (multiples of 1/Q);        *)
(*   - a sampled scalar v is the integer v*VS, VS = (4*Q^3)^3, the common  *)
(*     denominator of the three cubic-kernel passes;                       *)
(*   - a ray parameter t is a fraction <<n, d>> with d > 0.                *)
(* All inputs are small dyadic or integer values, on which the float       *)
(* operations used by the modelled paths (comparisons, additions, products *)
(* with 0 and 1, truncations) are exact.                                   *)
(*                                                                         *)
(* Specifications.                                                         *)
(*   SpecVolume  a client calling getVoxel and getVoxelInterpolate         *)
(*   SpecRay     a client calling instersectRayVolumeBounds                *)
(*   Spec        the Renderer's interface, every call run to completion    *)
(*               (render() as the sequential build runs it)                *)
(*   SpecPass    one render() of the parallel build, task by task          *)
(***************************************************************************)
EXTENDS Integers, Sequences, FiniteSets, TLC

VARIABLES
    m_dim,              \* Volume::m_dim, <<x, y, z>>
    m_data,             \* Volume::m_data, row-major, x fastest (1-based here)
    m_minimum,          \* Volume::m_minimum
    m_maximum,          \* Volume::m_maximum
    m_histogram,        \* Volume::m_histogram, entry v at index v + 1
    interpolationMode,  \* Volume::interpolationMode (public, ambient)
    a,                  \* Volume::a, the cubic kernel parameter, in quarters
    call,               \* the sampling call made last, with its result
    ray,                \* a Ray: origin, direction, tmin, tmax
    bounds,             \* the Bounds the ray is intersected with
    returned,           \* "true" or "false" as instersectRayVolumeBounds returned, else "none"
    m_config,           \* Renderer::m_config
    m_frameBuffer,      \* Renderer::m_frameBuffer (1-based here)
    m_pCamera,          \* the camera Renderer::m_pCamera points to
    m_pGradientVolume,  \* the gradient volume Renderer::m_pGradientVolume points
                        \* to: one GradientVoxel per voxel, indexed as m_data
    last,               \* history: the step completed last; resized: it changed the
                        \* resolution; before: the value of `rendered' before it
    rendered,           \* history: the framebuffer the latest render() left, while
                        \* volume, camera and config are as they were then; else <<>>
    pc,                 \* where a render() of the parallel build stands
    tiles,              \* the ranges tbb::parallel_for has made of screenRange
    writes              \* history: per framebuffer slot, the tiles whose task wrote it

volumeVars == <<m_dim, m_data, m_minimum, m_maximum, m_histogram, interpolationMode, a>>

rayVars == <<ray, bounds, returned>>

rendererVars == <<m_config, m_frameBuffer, m_pCamera, m_pGradientVolume, last, rendered>>

passVars == <<pc, tiles, writes>>

vars == <<m_dim, m_data, m_minimum, m_maximum, m_histogram, interpolationMode, a,
          call, ray, bounds, returned,
          m_config, m_frameBuffer, m_pCamera, m_pGradientVolume, last, rendered,
          pc, tiles, writes>>

(***************************************************************************)
(* Bounds of the model.                                                    *)
(***************************************************************************)
Q == 2          \* sample coordinates are multiples of 1/Q
MaxDim == 2     \* volumes have at most MaxDim voxels along x
MaxDir == 2     \* ray direction components lie in -MaxDir..MaxDir
MaxRes == 2     \* render resolutions are at most MaxRes x MaxRes
MaxTiles == 3   \* parallel_for makes at most MaxTiles ranges of the screen

W == 4 * Q * Q * Q      \* denominator of one cubic kernel weight
VS == W * W * W         \* denominator of a sampled scalar

InterpolationModes == {"NearestNeighbour", "Linear", "Cubic"}

\* Volume::a is declared in volume.h; the kernel parameter is a class
\* constant, here -1/2 or -3/4 (the two customary choices), in quarters.
AValues == {-2, -3}

(***************************************************************************)
(* Volumes.  ExampleData is the 2x2x2 volume whose only non-zero voxel is  *)
(* (1,1,1) = 100; GradedData(d) has the distinct values 1, 2, 3, ...       *)
(***************************************************************************)
VoxelCount(dim) == dim[1] * dim[2] * dim[3]

ExampleData == <<0, 0, 0, 0, 0, 0, 0, 100>>

GradedData(dim) == [i \in 1..VoxelCount(dim) |-> i]

Dims == {<<dx, 2, 2>> : dx \in 2..MaxDim}

Volumes ==
    {[dim |-> <<2, 2, 2>>, data |-> ExampleData]}
    \cup {[dim |-> d, data |-> GradedData(d)] : d \in Dims}

\* the value of `call' while no sampling call has been made
NoCall == [fn |-> "none", args |-> <<>>, result |-> 0]

(***************************************************************************)
(* Conversions.                                                            *)
(***************************************************************************)
\* static_cast<size_t>(int): a negative int wraps to a value far above any
\* container size.  The width is cut to 30 bits to stay inside TLC's
\* integers; every size in the model is far below 2^30.
SizeT(i) == i % (2^30)

\* static_cast<int>(float) of the coordinate c/Q: truncation toward zero.
ToInt(c) == IF c >= 0 THEN c \div Q ELSE -((-c) \div Q)

\* |x|
Abs(x) == IF x < 0 THEN -x ELSE x

(***************************************************************************)
(* Volume::getVoxel (volume.cpp:78-85)                                     *)
(***************************************************************************)
getVoxel(x, y, z) ==
    LET i == SizeT(x + m_dim[1] * (y + m_dim[2] * z))
    IN  IF i >= Len(m_data) \/ i < 0
        THEN 0
        ELSE m_data[i + 1]

\* The lambda roundToPositiveInt of getVoxelNN (volume.cpp:113-115):
\* static_cast<int>(f + 0.5f), f + 0.5 taken in units of 1/(2Q).
roundToPositiveInt(f) ==
    LET h == 2 * f + Q
    IN  IF h >= 0 THEN h \div (2 * Q) ELSE -((-h) \div (2 * Q))

\* getVoxelNN without the upper bounds check.
getVoxelNN_NoUpperCheck(coord) ==
    IF \E k \in 1..3 : 2 * coord[k] + Q < 0
    THEN 0
    ELSE VS * getVoxel(roundToPositiveInt(coord[1]),
                       roundToPositiveInt(coord[2]),
                       roundToPositiveInt(coord[3]))

(***************************************************************************)
(* Volume::getVoxelNN (volume.cpp:108-118).  coord + 0.5 is compared in    *)
(* units of 1/(2Q): 2c + Q.                                                *)
(***************************************************************************)
getVoxelNN(coord) ==
    IF (\E k \in 1..3 : 2 * coord[k] + Q < 0)
       \/ (\E k \in 1..3 : 2 * coord[k] + Q >= 2 * Q * m_dim[k])
    THEN 0
    ELSE VS * getVoxel(roundToPositiveInt(coord[1]),
                       roundToPositiveInt(coord[2]),
                       roundToPositiveInt(coord[3]))

(***************************************************************************)
(* Volume::linearInterpolate (volume.cpp:146-149).  factor in units 1/Q,   *)
(* the result carries one more factor Q than g0, g1.                       *)
(***************************************************************************)
linearInterpolate(g0, g1, factor) == (Q - factor) * g0 + factor * g1

(***************************************************************************)
(* Volume::getVoxelLinearInterpolate (volume.cpp:121-142)                  *)
(***************************************************************************)
getVoxelLinearInterpolate(coord) ==
    IF (\E k \in 1..3 : coord[k] < 0)
       \/ (\E k \in 1..3 : coord[k] >= Q * (m_dim[k] - 1))
    THEN 0
    ELSE
      LET x == ToInt(coord[1])
          y == ToInt(coord[2])
          z == ToInt(coord[3])
          fac_x == coord[1] - Q * x
          fac_y == coord[2] - Q * y
          fac_z == coord[3] - Q * z
          t0 == linearInterpolate(getVoxel(x, y, z), getVoxel(x + 1, y, z), fac_x)
          t1 == linearInterpolate(getVoxel(x, y + 1, z), getVoxel(x + 1, y + 1, z), fac_x)
          t2 == linearInterpolate(getVoxel(x, y, z + 1), getVoxel(x + 1, y, z + 1), fac_x)
          t3 == linearInterpolate(getVoxel(x, y + 1, z + 1), getVoxel(x + 1, y + 1, z + 1), fac_x)
          t4 == linearInterpolate(t0, t1, fac_y)
          t5 == linearInterpolate(t2, t3, fac_y)
          t6 == linearInterpolate(t4, t5, fac_z)
      IN  (VS \div (Q * Q * Q)) * t6

(***************************************************************************)
(* Volume::weight (volume.cpp:152-163): the kernel h(x), x in units 1/Q,   *)
(* result in units 1/W.                                                    *)
(***************************************************************************)
weight(x0) ==
    LET x == Abs(x0)
    IN  IF x < Q
        THEN (a + 8) * x * x * x - (a + 12) * x * x * Q + 4 * Q * Q * Q
        ELSE IF x < 2 * Q
        THEN a * x * x * x - 5 * a * x * x * Q + 8 * a * x * Q * Q - 4 * a * Q * Q * Q
        ELSE 0

(***************************************************************************)
(* Volume::cubicInterpolate (volume.cpp:166-169).  The result carries one  *)
(* more factor W than g0..g3.                                              *)
(***************************************************************************)
cubicInterpolate(g0, g1, g2, g3, factor) ==
    weight(Q + factor) * g0 + weight(factor) * g1
    + weight(Q - factor) * g2 + weight(2 * Q - factor) * g3

(***************************************************************************)
(* Volume::bicubicInterpolateXY (volume.cpp:172-197)                       *)
(***************************************************************************)
bicubicInterpolateXY(xyCoord, z) ==
    LET offset == 1
        y == ToInt(xyCoord[2])
        fac_x == xyCoord[1] - Q * ToInt(xyCoord[1])
        fac_y == xyCoord[2] - Q * y
        values == [i \in (0 - offset)..(3 - offset) |->
                     LET x == ToInt(xyCoord[1] + Q * i)
                     IN  cubicInterpolate(getVoxel(x, y - offset, z),
                                          getVoxel(x, y - offset + 1, z),
                                          getVoxel(x, y - offset + 2, z),
                                          getVoxel(x, y - offset + 3, z),
                                          fac_y)]
    IN  cubicInterpolate(values[-1], values[0], values[1], values[2], fac_x)

(***************************************************************************)
(* Volume::getVoxelTriCubicInterpolate (volume.cpp:200-221)                *)
(***************************************************************************)
getVoxelTriCubicInterpolate(coord) ==
    IF (\E k \in 1..3 : coord[k] < 0)
       \/ (\E k \in 1..3 : coord[k] >= Q * (m_dim[k] - 1))
    THEN 0
    ELSE
      LET offset == 1
          fac_z == coord[3] - Q * ToInt(coord[3])
          values == [i \in (0 - offset)..(3 - offset) |->
                       bicubicInterpolateXY(<<coord[1], coord[2]>>,
                                            ToInt(coord[3] + Q * i))]
          value == cubicInterpolate(values[-1], values[0], values[1], values[2], fac_z)
      IN  IF value < 0 THEN 0 ELSE value

(***************************************************************************)
(* Volume::getVoxelInterpolate (volume.cpp:88-104)                         *)
(***************************************************************************)
getVoxelInterpolate(coord) ==
    CASE interpolationMode = "NearestNeighbour" -> getVoxelNN(coord)
      [] interpolationMode = "Linear" -> getVoxelLinearInterpolate(coord)
      [] interpolationMode = "Cubic" -> getVoxelTriCubicInterpolate(coord)

(***************************************************************************)
(* The cached statistics of a Volume (volume.cpp:309-325).  data is never  *)
(* empty where the constructors call these.                                *)
(***************************************************************************)
\* computeMinimum: *std::min_element(begin, end)
computeMinimum(data) ==
    CHOOSE v \in {data[i] : i \in 1..Len(data)} : \A i \in 1..Len(data) : v <= data[i]

\* computeMaximum: *std::max_element(begin, end)
computeMaximum(data) ==
    CHOOSE v \in {data[i] : i \in 1..Len(data)} : \A i \in 1..Len(data) : data[i] <= v

\* for (const auto v : data) histogram[v]++
RECURSIVE histogramLoop(_, _, _)
histogramLoop(data, i, histogram) ==
    IF i > Len(data) THEN histogram
    ELSE histogramLoop(data, i + 1, [histogram EXCEPT ![data[i] + 1] = @ + 1])

\* computeHistogram that counts every voxel but the last
computeHistogram_SkipLast(data) ==
    histogramLoop(SubSeq(data, 1, Len(data) - 1), 1,
                  [v \in 1..(computeMaximum(data) + 1) |-> 0])

\* computeHistogram: max + 1 zeroed entries, then the counting loop
computeHistogram(data) ==
    histogramLoop(data, 1, [v \in 1..(computeMaximum(data) + 1) |-> 0])

\* the members as the data/dim constructor leaves them (volume.cpp:42-51), and
\* as the file constructor leaves them for a non-empty file (volume.cpp:35-39)
Constructed ==
    /\ m_minimum = computeMinimum(m_data)
    /\ m_maximum = computeMaximum(m_data)
    /\ m_histogram = computeHistogram(m_data)

(***************************************************************************)
(* Fractions <<n, d>>, d > 0, for the ray parameters.                      *)
(***************************************************************************)
Frac(n, d) == IF d < 0 THEN <<-n, -d>> ELSE <<n, d>>

FLess(p, q) == p[1] * q[2] < q[1] * p[2]

FLeq(p, q) == p[1] * q[2] <= q[1] * p[2]

\* std::max(a, b) is (a < b) ? b : a and std::min(a, b) is (b < a) ? b : a
FMax(p, q) == IF FLess(p, q) THEN q ELSE p

FMin(p, q) == IF FLess(q, p) THEN q ELSE p

Zero == <<0, 1>>

(***************************************************************************)
(* Ray and Bounds (declared in the renderer's headers).  Coordinates are   *)
(* in units of 1/Q, direction components are non-zero integers, and a      *)
(* parameter t = <<n, d>> stands for the point origin + (n/d)*direction.   *)
(* The renderer's bounds are {0, dims - 1} (renderer.cpp:69).              *)
(***************************************************************************)
BoundsOf(dim) ==
    [lower |-> <<0, 0, 0>>,
     upper |-> <<Q * (dim[1] - 1), Q * (dim[2] - 1), Q * (dim[3] - 1)>>]

\* bounds.lowerUpper[s]
lowerUpper(b, s) == IF s THEN b.upper ELSE b.lower

\* tmin and tmax are not initialized by the Ray's constructor
TGarbage == {<<0, 1>>, <<5, 1>>}

IdleRay == [origin |-> <<0, 0, 0>>, direction |-> <<1, 1, 1>>,
            tmin |-> Zero, tmax |-> Zero]

\* Slab that takes the lower bound as the near one whatever the sign.
Slab_IgnoreSign(r, b, k) ==
    <<Frac(b.lower[k] - r.origin[k], r.direction[k]),
      Frac(b.upper[k] - r.origin[k], r.direction[k])>>

(***************************************************************************)
(* One axis of Renderer::instersectRayVolumeBounds (renderer.cpp:408-414,  *)
(* 421-422): <<near, far>> = (lowerUpper[sign] - origin) * invDir and      *)
(* (lowerUpper[!sign] - origin) * invDir, with sign = invDir < 0.          *)
(***************************************************************************)
Slab(r, b, k) ==
    LET sign == r.direction[k] < 0
    IN  <<Frac(lowerUpper(b, sign)[k] - r.origin[k], r.direction[k]),
          Frac(lowerUpper(b, ~sign)[k] - r.origin[k], r.direction[k])>>

\* instersectRayVolumeBounds that stores the x/y interval in the ray before
\* the test on the z slab.
instersectRayVolumeBounds_EarlyStore(r, b) ==
    LET tx == Slab(r, b, 1)
        ty == Slab(r, b, 2)
        tz == Slab(r, b, 3)
        tmin == FMax(tx[1], ty[1])
        tmax == FMin(tx[2], ty[2])
    IN  IF FLess(ty[2], tx[1]) \/ FLess(tx[2], ty[1])
        THEN [hit |-> FALSE, tmin |-> r.tmin, tmax |-> r.tmax]
        ELSE IF FLess(tz[2], tmin) \/ FLess(tmax, tz[1])
        THEN [hit |-> FALSE, tmin |-> tmin, tmax |-> tmax]
        ELSE [hit |-> TRUE, tmin |-> FMax(tmin, tz[1]), tmax |-> FMin(tmax, tz[2])]

\* instersectRayVolumeBounds without the rejection test on the x and y slabs.
instersectRayVolumeBounds_NoXYReject(r, b) ==
    LET tx == Slab(r, b, 1)
        ty == Slab(r, b, 2)
        tz == Slab(r, b, 3)
        tmin == FMax(tx[1], ty[1])
        tmax == FMin(tx[2], ty[2])
    IN  IF FLess(tz[2], tmin) \/ FLess(tmax, tz[1])
        THEN [hit |-> FALSE, tmin |-> r.tmin, tmax |-> r.tmax]
        ELSE [hit |-> TRUE, tmin |-> FMax(tmin, tz[1]), tmax |-> FMin(tmax, tz[2])]

(***************************************************************************)
(* Renderer::instersectRayVolumeBounds (renderer.cpp:406-430).  The result *)
(* is the returned bool and the values of ray.tmin and ray.tmax after the  *)
(* call.                                                                   *)
(***************************************************************************)
instersectRayVolumeBounds(r, b) ==
    LET tx == Slab(r, b, 1)
        ty == Slab(r, b, 2)
        tz == Slab(r, b, 3)
        tmin == FMax(tx[1], ty[1])
        tmax == FMin(tx[2], ty[2])
    IN  IF FLess(ty[2], tx[1]) \/ FLess(tx[2], ty[1])
        THEN [hit |-> FALSE, tmin |-> r.tmin, tmax |-> r.tmax]
        ELSE IF FLess(tz[2], tmin) \/ FLess(tmax, tz[1])
        THEN [hit |-> FALSE, tmin |-> r.tmin, tmax |-> r.tmax]
        ELSE [hit |-> TRUE, tmin |-> FMax(tmin, tz[1]), tmax |-> FMin(tmax, tz[2])]

(***************************************************************************)
(* Colors: glm::vec4, four fractions.                                      *)
(***************************************************************************)
One == <<1, 1>>

\* glm::vec4(0.0f)
ZeroColor == <<Zero, Zero, Zero, Zero>>

\* the fixed color of an isosurface hit, {0.8f, 0.8f, 0.2f, 1.0f}
IsoColor == <<(<<4, 5>>), (<<4, 5>>), (<<1, 5>>), One>>

(***************************************************************************)
(* RenderConfig (declared in the renderer's headers): the fields the       *)
(* modelled render modes read.  Shading is off in every config.            *)
(***************************************************************************)
RenderModes == {"RenderMIP", "RenderIso"}

Resolutions == (1..MaxRes) \X (1..MaxRes)

IsoValues == {3}

Configs ==
    [renderResolution : Resolutions, renderMode : RenderModes,
     isoValue : IsoValues, volumeShading : {FALSE}]

(***************************************************************************)
(* RayTraceCamera (a collaborator outside the repository's sources): it    *)
(* yields one ray per pixel.  Here the rays of a camera are parallel to    *)
(* its forward vector and start one voxel apart; the components of forward *)
(* are +1 or -1, so every slab distance is a multiple of 1/Q.              *)
(***************************************************************************)
Cameras ==
    {[position |-> <<-Q, -Q, -Q>>, forward |-> <<1, 1, 1>>],
     [position |-> <<0, 1, -Q + 1>>, forward |-> <<1, 1, 1>>],
     [position |-> <<2 * Q, 2 * Q, 2 * Q>>, forward |-> <<-1, -1, -1>>]}

generateRay(x, y) ==
    [origin |-> <<m_pCamera.position[1] + Q * x, m_pCamera.position[2] + Q * y,
                  m_pCamera.position[3]>>,
     direction |-> m_pCamera.forward,
     tmin |-> Zero, tmax |-> Zero]

(***************************************************************************)
(* Volume::maximum (volume.cpp:58-61)                                      *)
(***************************************************************************)
maximum == m_maximum

(***************************************************************************)
(* The ray marching loops.  sampleStep is 1.0f (renderer.cpp:66): Q in the *)
(* units of t.                                                             *)
(***************************************************************************)
sampleStep == Q

\* ray.origin + t * ray.direction
PointAt(r, t) == [k \in 1..3 |-> r.origin[k] + (t[1] * r.direction[k]) \div t[2]]

\* t += sampleStep
StepT(t) == <<t[1] + sampleStep * t[2], t[2]>>

\* samplePos += increment, increment = sampleStep * ray.direction
StepPos(r, samplePos) == [k \in 1..3 |-> samplePos[k] + sampleStep * r.direction[k]]

\* keeps the newer value
MaxOf_Latest(val, maxVal) == val

\* std::max(val, maxVal)
MaxOf(val, maxVal) == IF val < maxVal THEN maxVal ELSE val

(***************************************************************************)
(* Renderer::traceRayMIP (renderer.cpp:158-172)                            *)
(***************************************************************************)
RECURSIVE traceRayMIPLoop(_, _, _, _)
traceRayMIPLoop(r, t, samplePos, maxVal) ==
    IF ~FLeq(t, r.tmax)
    THEN maxVal
    ELSE traceRayMIPLoop(r, StepT(t), StepPos(r, samplePos),
                         MaxOf(getVoxelInterpolate(samplePos), maxVal))

traceRayMIP(r) ==
    LET maxVal == traceRayMIPLoop(r, r.tmin, PointAt(r, r.tmin), 0)
        gray == Frac(maxVal, VS * maximum)
    IN  <<gray, gray, gray, One>>

(***************************************************************************)
(* Renderer::traceRayISO (renderer.cpp:179-217), the branch without volume *)
(* shading.                                                                *)
(***************************************************************************)
RECURSIVE traceRayISOLoop(_, _, _)
traceRayISOLoop(r, t, sample_pos) ==
    IF ~FLeq(t, r.tmax)
    THEN ZeroColor
    ELSE IF getVoxelInterpolate(sample_pos) > VS * m_config.isoValue
    THEN IsoColor
    ELSE traceRayISOLoop(r, StepT(t), StepPos(r, sample_pos))

traceRayISO(r) == traceRayISOLoop(r, r.tmin, PointAt(r, r.tmin))

\* the index of fillColor without the row stride
fillColorIndex_NoStride(x, y) == SizeT(y + x)

(***************************************************************************)
(* Renderer::fillColor (renderer.cpp:433-437); fillColorIndex is its line  *)
(* 435.                                                                    *)
(***************************************************************************)
fillColorIndex(x, y) == SizeT(m_config.renderResolution[1] * y + x)

fillColor(fb, x, y, color) ==
    LET index == fillColorIndex(x, y)
    IN  [fb EXCEPT ![index + 1] = color]

(***************************************************************************)
(* The body of the pixel loops of Renderer::render (renderer.cpp:92-130):  *)
(* the framebuffer after the pixel (x, y) was handled.                     *)
(***************************************************************************)
PixelRay(x, y) ==
    LET r == generateRay(x, y)
        res == instersectRayVolumeBounds(r, BoundsOf(m_dim))
    IN  [hit |-> res.hit, ray |-> [r EXCEPT !.tmin = res.tmin, !.tmax = res.tmax]]

PixelColor(r) ==
    CASE m_config.renderMode = "RenderMIP" -> traceRayMIP(r)
      [] m_config.renderMode = "RenderIso" -> traceRayISO(r)

renderPixel(fb, x, y) ==
    LET p == PixelRay(x, y)
    IN  IF ~p.hit
        THEN fb
        ELSE fillColor(fb, x, y, PixelColor(p.ray))

\* resizeImage that assigns the new length of black pixels
resizeImage_Assign(fb, resolution) ==
    [i \in 1..(resolution[1] * resolution[2]) |-> ZeroColor]

\* resizeImage that keeps the length it has
resizeImage_KeepLength(fb, resolution) ==
    IF Len(fb) = 0 THEN resizeImage_Assign(fb, resolution) ELSE fb

(***************************************************************************)
(* Renderer::resizeImage (renderer.cpp:42-45): std::vector::resize(n, v)   *)
(* cuts the vector to n elements or appends copies of v up to n elements;  *)
(* the elements it keeps are not assigned.                                 *)
(***************************************************************************)
resizeImage(fb, resolution) ==
    LET n == SizeT(resolution[1]) * SizeT(resolution[2])
    IN  IF n <= Len(fb)
        THEN SubSeq(fb, 1, n)
        ELSE fb \o [i \in 1..(n - Len(fb)) |-> ZeroColor]

(***************************************************************************)
(* Renderer::resetImage (renderer.cpp:48-51)                               *)
(***************************************************************************)
resetImage(fb) == [i \in 1..Len(fb) |-> ZeroColor]

\* The sequential loops with the bounds of x and y exchanged.
RECURSIVE renderLoop_SwappedBounds(_, _, _)
renderLoop_SwappedBounds(fb, x, y) ==
    IF x >= m_config.renderResolution[2]
    THEN fb
    ELSE IF y >= m_config.renderResolution[1]
    THEN renderLoop_SwappedBounds(fb, x + 1, 0)
    ELSE renderLoop_SwappedBounds(renderPixel(fb, x, y), x, y + 1)

(***************************************************************************)
(* Renderer::render with PARALLELISM == 0 (renderer.cpp:82-83, 137-138):   *)
(* x outer, y inner.                                                       *)
(***************************************************************************)
RECURSIVE renderLoop(_, _, _)
renderLoop(fb, x, y) ==
    IF x >= m_config.renderResolution[1]
    THEN fb
    ELSE IF y >= m_config.renderResolution[2]
    THEN renderLoop(fb, x + 1, 0)
    ELSE renderLoop(renderPixel(fb, x, y), x, y + 1)

\* render() that does not clear the image first
render_NoReset(fb) == renderLoop(fb, 0, 0)

\* Renderer::render (renderer.cpp:62-140), sequential build
render(fb) == renderLoop(resetImage(fb), 0, 0)

(***************************************************************************)
(* Arithmetic on fractions, kept in lowest terms.  A denominator 0 stands  *)
(* for the float a division by zero makes: an infinity or a NaN.           *)
(***************************************************************************)
RECURSIVE GCD(_, _)
GCD(x, y) == IF y = 0 THEN x ELSE GCD(y, x % y)

Reduce(p) ==
    LET g == GCD(Abs(p[1]), p[2])
    IN  IF g = 0 THEN p ELSE <<p[1] \div g, p[2] \div g>>

FAdd(p, q) == Reduce(<<p[1] * q[2] + q[1] * p[2], p[2] * q[2]>>)

FSub(p, q) == Reduce(<<p[1] * q[2] - q[1] * p[2], p[2] * q[2]>>)

FMul(p, q) == Reduce(<<p[1] * q[1], p[2] * q[2]>>)

FDiv(p, q) == Reduce(Frac(p[1] * q[2], p[2] * q[1]))

FAbs(p) == <<Abs(p[1]), p[2]>>

FEq(p, q) == p[1] * q[2] = q[1] * p[2]

\* an integer as a fraction
Flt(i) == <<i, 1>>

\* a sampled scalar (scaled by VS) as a float
Intensity(samplePos) == Reduce(<<getVoxelInterpolate(samplePos), VS>>)

(***************************************************************************)
(* The gradient volume (a collaborator outside the repository's sources):  *)
(* one GradientVoxel, a direction and its magnitude, per voxel.            *)
(***************************************************************************)
ZeroGradient == [dir |-> <<0, 0, 0>>, magnitude |-> 0]

\* a gradient volume that is zero everywhere (the modes without shading and
\* without 2D transfer function do not read the gradients)
NoGradients == [i \in 1..VoxelCount(m_dim) |-> ZeroGradient]

\* GradientVolume::getGradientVoxel: the gradient of the voxel the
\* coordinate lies in, zero outside the volume
getGradientVoxel(coord) ==
    LET x == ToInt(coord[1])
        y == ToInt(coord[2])
        z == ToInt(coord[3])
    IN  IF \/ coord[1] < 0 \/ coord[2] < 0 \/ coord[3] < 0
           \/ x >= m_dim[1] \/ y >= m_dim[2] \/ z >= m_dim[3]
        THEN ZeroGradient
        ELSE m_pGradientVolume[x + m_dim[1] * (y + m_dim[2] * z) + 1]

(***************************************************************************)
(* Renderer::computePhongShading (renderer.cpp:314-326).  The vectors of   *)
(* the model lie along coordinate axes, so that a gradient is parallel,    *)
(* opposite or perpendicular to the light and view vectors and every       *)
(* cosine is 1, -1 or 0; eps (line 320), which moves a quotient by less    *)
(* than 1e-4 of itself, is left out.                                       *)
(***************************************************************************)
ka == <<1, 10>>

kd == <<7, 10>>

ks == <<2, 10>>

n == 100

Dot(u, v) == u[1] * v[1] + u[2] * v[2] + u[3] * v[3]

\* cos(acos(dot(dir, v) / (magnitude * length(v) + eps)))
Cosine(dir, magnitude, v) ==
    LET d == Dot(dir, v)
    IN  CASE d = 0 -> 0
          [] d > 0 /\ d * d = magnitude * magnitude * Dot(v, v) -> 1
          [] d < 0 /\ d * d = magnitude * magnitude * Dot(v, v) -> -1

\* sin(acos(x)) for x in {-1, 0, 1}
Sine(x) == 1 - x * x

\* pow(x, e), by squaring
RECURSIVE Pow(_, _)
Pow(x, e) ==
    IF e = 0
    THEN 1
    ELSE IF e % 2 = 0
    THEN LET h == Pow(x, e \div 2) IN h * h
    ELSE x * Pow(x, e - 1)

\* the factor of line 325 without its diffuse term
PhongFactor_NoDiffuse(gradient, L, V) ==
    LET cosTheta == Cosine(gradient.dir, gradient.magnitude, <<-L[1], -L[2], -L[3]>>)
        cosV == Cosine(gradient.dir, gradient.magnitude, V)
        cosPhi == cosV * cosTheta + Sine(cosV) * Sine(cosTheta)
    IN  FAdd(ka, FMul(ks, Flt(Pow(cosPhi, n))))

\* ka + kd * cos(theta) + ks * pow(cos(phi), n), phi = acos(..V..) - theta
PhongFactor(gradient, L, V) ==
    LET cosTheta == Cosine(gradient.dir, gradient.magnitude, <<-L[1], -L[2], -L[3]>>)
        cosV == Cosine(gradient.dir, gradient.magnitude, V)
        cosPhi == cosV * cosTheta + Sine(cosV) * Sine(cosTheta)
    IN  FAdd(FAdd(ka, FMul(kd, Flt(cosTheta))), FMul(ks, Flt(Pow(cosPhi, n))))

computePhongShading(color, gradient, L, V) ==
    [k \in 1..3 |-> FMul(PhongFactor(gradient, L, V), color[k])]

(***************************************************************************)
(* Renderer::getTFValue (renderer.cpp:331-337).  The conversion to size_t  *)
(* truncates; it is undefined for a negative product, which a config with  *)
(* tfColorMapIndexStart = 0 never makes of a (non-negative) sample.        *)
(***************************************************************************)
getTFValue(val) ==
    LET range01 == FDiv(FSub(val, Flt(m_config.tfColorMapIndexStart)),
                        Flt(m_config.tfColorMapIndexRange))
        scaled == FMul(range01, Flt(Len(m_config.tfColorMap)))
        i == CASE scaled[1] >= 0 /\ scaled[2] > 0 ->
                    LET c == SizeT(scaled[1] \div scaled[2])
                        m == SizeT(Len(m_config.tfColorMap) - 1)
                    IN  IF c < m THEN c ELSE m
    IN  m_config.tfColorMap[i + 1]

\* inTriangle without the test of the right base corner
inTriangle_NoRightCorner(leftIntensity, midIntensity, rightIntensity, intensity, magnitude) ==
    IF \/ FLeq(intensity, leftIntensity)
       \/ FLeq(magnitude, Zero)
    THEN FALSE
    ELSE IF FEq(intensity, midIntensity)
    THEN TRUE
    ELSE IF FLess(intensity, midIntensity)
    THEN FLess(FMul(Flt(255), FDiv(FSub(midIntensity, intensity),
                                   FSub(midIntensity, leftIntensity))),
               magnitude)
    ELSE FLess(FMul(Flt(255), FDiv(FSub(intensity, midIntensity),
                                   FSub(rightIntensity, midIntensity))),
               magnitude)

(***************************************************************************)
(* inTriangle (renderer.cpp:344-361), on fractions                         *)
(***************************************************************************)
inTriangle(leftIntensity, midIntensity, rightIntensity, intensity, magnitude) ==
    IF \/ FLeq(intensity, leftIntensity)
       \/ FLeq(rightIntensity, intensity)
       \/ FLeq(magnitude, Zero)
    THEN FALSE
    ELSE IF FEq(intensity, midIntensity)
    THEN TRUE
    ELSE IF FLess(intensity, midIntensity)
    THEN FLess(FMul(Flt(255), FDiv(FSub(midIntensity, intensity),
                                   FSub(midIntensity, leftIntensity))),
               magnitude)
    ELSE FLess(FMul(Flt(255), FDiv(FSub(intensity, midIntensity),
                                   FSub(rightIntensity, midIntensity))),
               magnitude)

(***************************************************************************)
(* linearOpacity (renderer.cpp:367-375)                                    *)
(***************************************************************************)
linearOpacity(intensityCenter, radius, intensity, magnitude) ==
    LET horizontalWidth == FMul(radius, FDiv(magnitude, Flt(255)))
    IN  FSub(One, FDiv(FAbs(FSub(intensityCenter, intensity)), horizontalWidth))

(***************************************************************************)
(* Renderer::getTF2DOpacity (renderer.cpp:383-398)                         *)
(***************************************************************************)
getTF2DOpacity(intensity, gradientMagnitude) ==
    IF inTriangle(Flt(m_config.TF2DIntensity - m_config.TF2DRadius),
                  Flt(m_config.TF2DIntensity),
                  Flt(m_config.TF2DIntensity + m_config.TF2DRadius),
                  intensity, gradientMagnitude)
    THEN linearOpacity(Flt(m_config.TF2DIntensity), Flt(m_config.TF2DRadius),
                       intensity, gradientMagnitude)
    ELSE Zero

(***************************************************************************)
(* Renderer::getTF2DV2Opacity (renderer.cpp:477-505)                       *)
(***************************************************************************)
inTriangle_0(intensity, gradientMagnitude) ==
    inTriangle(Flt(m_config.TF2DV2Intensity_0 - m_config.TF2DV2Radius_0),
               Flt(m_config.TF2DV2Intensity_0),
               Flt(m_config.TF2DV2Intensity_0 + m_config.TF2DV2Radius_0),
               intensity, gradientMagnitude)

inTriangle_1(intensity, gradientMagnitude) ==
    inTriangle(Flt(m_config.TF2DV2Intensity_1 - m_config.TF2DV2Radius_1),
               Flt(m_config.TF2DV2Intensity_1),
               Flt(m_config.TF2DV2Intensity_1 + m_config.TF2DV2Radius_1),
               intensity, gradientMagnitude)

linearOpacity_0(intensity, gradientMagnitude) ==
    linearOpacity(Flt(m_config.TF2DV2Intensity_0), Flt(m_config.TF2DV2Radius_0),
                  intensity, gradientMagnitude)

linearOpacity_1(intensity, gradientMagnitude) ==
    linearOpacity(Flt(m_config.TF2DV2Intensity_1), Flt(m_config.TF2DV2Radius_1),
                  intensity, gradientMagnitude)

getTF2DV2Opacity(intensity, gradientMagnitude) ==
    IF inTriangle_0(intensity, gradientMagnitude)
    THEN linearOpacity_0(intensity, gradientMagnitude)
    ELSE IF inTriangle_1(intensity, gradientMagnitude)
    THEN linearOpacity_1(intensity, gradientMagnitude)
    ELSE IF inTriangle_0(intensity, gradientMagnitude)
            /\ inTriangle_1(intensity, gradientMagnitude)
    THEN FMax(linearOpacity_0(intensity, gradientMagnitude),
              linearOpacity_1(intensity, gradientMagnitude))
    ELSE Zero

(***************************************************************************)
(* Renderer::getTF2DV2Color (renderer.cpp:516-547)                         *)
(***************************************************************************)
\* getTF2DV2Color that tests the collision of the two triangles first
getTF2DV2Color_CollisionFirst(intensity, gradientMagnitude) ==
    IF inTriangle_0(intensity, gradientMagnitude)
       /\ inTriangle_1(intensity, gradientMagnitude)
    THEN IF FLess(linearOpacity_1(intensity, gradientMagnitude),
                  linearOpacity_0(intensity, gradientMagnitude))
         THEN m_config.TF2DV2Color_0
         ELSE m_config.TF2DV2Color_1
    ELSE IF inTriangle_0(intensity, gradientMagnitude)
    THEN m_config.TF2DV2Color_0
    ELSE IF inTriangle_1(intensity, gradientMagnitude)
    THEN m_config.TF2DV2Color_1
    ELSE ZeroColor

getTF2DV2Color(intensity, gradientMagnitude) ==
    IF inTriangle_0(intensity, gradientMagnitude)
    THEN m_config.TF2DV2Color_0
    ELSE IF inTriangle_1(intensity, gradientMagnitude)
    THEN m_config.TF2DV2Color_1
    ELSE IF inTriangle_0(intensity, gradientMagnitude)
            /\ inTriangle_1(intensity, gradientMagnitude)
    THEN IF FLess(linearOpacity_1(intensity, gradientMagnitude),
                  linearOpacity_0(intensity, gradientMagnitude))
         THEN m_config.TF2DV2Color_0
         ELSE m_config.TF2DV2Color_1
    ELSE ZeroColor

(***************************************************************************)
(* The back-to-front compositing loops.                                    *)
(***************************************************************************)
\* t -= sampleStep
StepBackT(t) == <<t[1] - sampleStep * t[2], t[2]>>

\* samplePos -= increment
StepBackPos(r, samplePos) == [k \in 1..3 |-> samplePos[k] - sampleStep * r.direction[k]]

\* opacity * c + (1 - opacity) * color, on vec3
Over(opacity, c, color) ==
    [k \in 1..3 |-> FAdd(FMul(opacity, c[k]), FMul(FSub(One, opacity), color[k]))]

\* glm::vec3(v) of a vec4
Vec3(v) == <<v[1], v[2], v[3]>>

\* glm::vec4(color, 1)
Opaque(color) == <<color[1], color[2], color[3], One>>

\* Renderer::backToFrontComposite (renderer.cpp:263-281)
RECURSIVE backToFrontCompositeLoop(_, _, _, _)
backToFrontCompositeLoop(r, t, samplePos, color) ==
    IF ~FLeq(r.tmin, t)
    THEN color
    ELSE LET tf_value == getTFValue(Intensity(samplePos))
             current_color ==
                 IF m_config.volumeShading
                 THEN computePhongShading(Vec3(tf_value), getGradientVoxel(samplePos),
                                          m_pCamera.position, r.direction)
                 ELSE Vec3(tf_value)
         IN  backToFrontCompositeLoop(r, StepBackT(t), StepBackPos(r, samplePos),
                                      Over(tf_value[4], current_color, color))

backToFrontComposite(r) ==
    Opaque(backToFrontCompositeLoop(r, r.tmax, PointAt(r, r.tmax), Vec3(ZeroColor)))

\* Renderer::traceRayComposite (renderer.cpp:252-255)
traceRayComposite(r) == backToFrontComposite(r)

\* Renderer::traceRayTF2D (renderer.cpp:285-306)
RECURSIVE traceRayTF2DLoop(_, _, _, _)
traceRayTF2DLoop(r, t, samplePos, color) ==
    IF ~FLeq(r.tmin, t)
    THEN color
    ELSE LET intensity == Intensity(samplePos)
             gradient == getGradientVoxel(samplePos)
             opacity == FMul(getTF2DOpacity(intensity, Flt(gradient.magnitude)),
                             m_config.TF2DColor[4])
             _color ==
                 IF m_config.volumeShading
                 THEN computePhongShading(Vec3(m_config.TF2DColor), gradient,
                                          m_pCamera.position, r.direction)
                 ELSE Vec3(m_config.TF2DColor)
         IN  traceRayTF2DLoop(r, StepBackT(t), StepBackPos(r, samplePos),
                              Over(opacity, _color, color))

traceRayTF2D(r) ==
    Opaque(traceRayTF2DLoop(r, r.tmax, PointAt(r, r.tmax), Vec3(ZeroColor)))

\* Renderer::traceRayTF2DV2 (renderer.cpp:446-466)
RECURSIVE traceRayTF2DV2Loop(_, _, _, _)
traceRayTF2DV2Loop(r, t, samplePos, color) ==
    IF ~FLeq(r.tmin, t)
    THEN color
    ELSE LET intensity == Intensity(samplePos)
             gradient == getGradientVoxel(samplePos)
             _color == getTF2DV2Color(intensity, Flt(gradient.magnitude))
             opacity == FMul(getTF2DV2Opacity(intensity, Flt(gradient.magnitude)),
                             _color[4])
         IN  traceRayTF2DV2Loop(r, StepBackT(t), StepBackPos(r, samplePos),
                                Over(opacity, Vec3(_color), color))

traceRayTF2DV2(r) ==
    Opaque(traceRayTF2DV2Loop(r, r.tmax, PointAt(r, r.tmax), Vec3(ZeroColor)))

(***************************************************************************)
(* The Renderer, used by a caller that lets every call run to completion.  *)
(***************************************************************************)
NoOp == [op |-> "none", resized |-> FALSE, before |-> <<>>]

DefaultConfig ==
    [renderResolution |-> <<1, 1>>, renderMode |-> "RenderMIP",
     isoValue |-> 3, volumeShading |-> FALSE]

DefaultCamera == [position |-> <<-Q, -Q, -Q>>, forward |-> <<1, 1, 1>>]

\* the renderer's variables where no Renderer is modelled
IdleRenderer ==
    /\ m_config = DefaultConfig
    /\ m_frameBuffer = <<>>
    /\ m_pCamera = DefaultCamera
    /\ m_pGradientVolume = NoGradients
    /\ last = NoOp
    /\ rendered = <<>>
    /\ pc = "idle" /\ tiles = {} /\ writes = <<>>

\* Renderer::Renderer (renderer.cpp:19-30)
Init ==
    /\ \E v \in Volumes : m_dim = v.dim /\ m_data = v.data
    /\ Constructed
    /\ interpolationMode \in InterpolationModes
    /\ a \in AValues
    /\ call = NoCall
    /\ ray = IdleRay /\ bounds = BoundsOf(m_dim) /\ returned = "none"
    /\ m_pCamera \in Cameras
    /\ m_pGradientVolume = NoGradients
    /\ \E initialConfig \in Configs :
         /\ m_config = initialConfig
         /\ m_frameBuffer = resizeImage(<<>>, initialConfig.renderResolution)
    /\ last = [op |-> "Renderer", resized |-> TRUE, before |-> <<>>]
    /\ rendered = <<>>
    /\ pc = "idle" /\ tiles = {} /\ writes = <<>>

\* Renderer::setConfig (renderer.cpp:33-39)
SetConfig ==
    \E config \in Configs :
      /\ m_frameBuffer' =
           IF config.renderResolution # m_config.renderResolution
           THEN resizeImage(m_frameBuffer, config.renderResolution)
           ELSE m_frameBuffer
      /\ m_config' = config
      /\ last' = [op |-> "setConfig",
                  resized |-> config.renderResolution # m_config.renderResolution,
                  before |-> <<>>]
      /\ rendered' = IF config = m_config THEN rendered ELSE <<>>
      /\ UNCHANGED <<volumeVars, call, rayVars, m_pCamera, m_pGradientVolume, passVars>>

\* Renderer::resetImage (renderer.cpp:48-51)
ResetImage ==
    /\ m_frameBuffer' = resetImage(m_frameBuffer)
    /\ last' = [op |-> "resetImage", resized |-> FALSE, before |-> <<>>]
    /\ UNCHANGED <<volumeVars, call, rayVars, m_config, m_pCamera, m_pGradientVolume, rendered, passVars>>

\* Renderer::render (renderer.cpp:62-140)
Render ==
    /\ m_frameBuffer' = render(m_frameBuffer)
    /\ last' = [op |-> "render", resized |-> FALSE, before |-> rendered]
    /\ rendered' = m_frameBuffer'
    /\ UNCHANGED <<volumeVars, call, rayVars, m_config, m_pCamera, m_pGradientVolume, passVars>>

\* the user moves the camera between two frames (renderer.cpp:16)
MoveCamera ==
    /\ \E c \in Cameras \ {m_pCamera} : m_pCamera' = c
    /\ last' = [op |-> "moveCamera", resized |-> FALSE, before |-> <<>>]
    /\ rendered' = <<>>
    /\ UNCHANGED <<volumeVars, call, rayVars, m_config, m_frameBuffer, m_pGradientVolume, passVars>>

Next == SetConfig \/ ResetImage \/ Render \/ MoveCamera

Spec == Init /\ [][Next]_vars

(***************************************************************************)
(* Renderer::render with PARALLELISM == 1 (renderer.cpp:86-90, 132-135).   *)
(* tbb::parallel_for splits screenRange = [0, res.y) x [0, res.x) into     *)
(* ranges, along the rows or along the columns, and runs the loop body on  *)
(* each range it no longer splits, in a task of its own; render() returns  *)
(* when every task has finished.  A tile is a range with the loop          *)
(* variables y, x of its task; tasks interleave pixel by pixel.            *)
(***************************************************************************)
Tile(rows, cols) ==
    [rows |-> rows, cols |-> cols, state |-> "range", y |-> rows[1], x |-> cols[1]]

\* the loop variables after the body ran for (x, y): x++ in the inner loop,
\* y++ and a fresh inner loop at its end, the end of the task after the last row
Advance(t) ==
    IF t.x + 1 # t.cols[2]
    THEN [t EXCEPT !.x = t.x + 1]
    ELSE IF t.y + 1 # t.rows[2]
    THEN [t EXCEPT !.y = t.y + 1, !.x = t.cols[1]]
    ELSE [t EXCEPT !.state = "done"]

\* the color of the older image the framebuffer holds before a pass
StaleColor == <<One, One, One, One>>

\* render() is called on a Renderer whose framebuffer holds an older image
InitPass ==
    /\ \E d \in Dims : m_dim = d /\ m_data = GradedData(d)
    /\ Constructed
    /\ interpolationMode \in InterpolationModes
    /\ a = -2
    /\ call = NoCall
    /\ ray = IdleRay /\ bounds = BoundsOf(m_dim) /\ returned = "none"
    /\ m_pCamera \in Cameras
    /\ m_pGradientVolume = NoGradients
    /\ m_config \in Configs
    /\ m_frameBuffer = [i \in 1..(m_config.renderResolution[1]
                                   * m_config.renderResolution[2]) |-> StaleColor]
    /\ last = NoOp
    /\ rendered = <<>>
    /\ pc = "idle" /\ tiles = {} /\ writes = <<>>

\* renderer.cpp:64-86: clear the image, make screenRange
BeginRender ==
    /\ pc = "idle"
    /\ m_frameBuffer' = resetImage(m_frameBuffer)
    /\ tiles' = {Tile(<<0, m_config.renderResolution[2]>>,
                      <<0, m_config.renderResolution[1]>>)}
    /\ writes' = [i \in 1..Len(m_frameBuffer) |-> <<>>]
    /\ pc' = "parallel_for"
    /\ UNCHANGED <<volumeVars, call, rayVars, m_config, m_pCamera, m_pGradientVolume, last, rendered>>

\* tbb::parallel_for splits a range along its rows
SplitRows ==
    /\ pc = "parallel_for"
    /\ Cardinality(tiles) < MaxTiles
    /\ \E t \in tiles :
         /\ t.state = "range"
         /\ \E m \in (t.rows[1] + 1)..(t.rows[2] - 1) :
              tiles' = (tiles \ {t}) \cup {Tile(<<t.rows[1], m>>, t.cols),
                                           Tile(<<m, t.rows[2]>>, t.cols)}
    /\ UNCHANGED <<volumeVars, call, rayVars, rendererVars, pc, writes>>

\* tbb::parallel_for splits a range along its columns
SplitCols ==
    /\ pc = "parallel_for"
    /\ Cardinality(tiles) < MaxTiles
    /\ \E t \in tiles :
         /\ t.state = "range"
         /\ \E m \in (t.cols[1] + 1)..(t.cols[2] - 1) :
              tiles' = (tiles \ {t}) \cup {Tile(t.rows, <<t.cols[1], m>>),
                                           Tile(t.rows, <<m, t.cols[2]>>)}
    /\ UNCHANGED <<volumeVars, call, rayVars, rendererVars, pc, writes>>

\* a task starts the loop body on a range (renderer.cpp:87-90)
StartTask ==
    /\ pc = "parallel_for"
    /\ \E t \in tiles :
         /\ t.state = "range"
         /\ tiles' = (tiles \ {t}) \cup {[t EXCEPT !.state = "running"]}
    /\ UNCHANGED <<volumeVars, call, rayVars, rendererVars, pc, writes>>

\* a task handles the pixel (x, y) of its range (renderer.cpp:92-130)
TaskPixel ==
    /\ pc = "parallel_for"
    /\ \E t \in tiles :
         /\ t.state = "running"
         /\ m_frameBuffer' = renderPixel(m_frameBuffer, t.x, t.y)
         /\ writes' =
              IF PixelRay(t.x, t.y).hit
              THEN [writes EXCEPT ![fillColorIndex(t.x, t.y) + 1] =
                                      Append(@, <<t.rows, t.cols>>)]
              ELSE writes
         /\ tiles' = (tiles \ {t}) \cup {Advance(t)}
    /\ UNCHANGED <<volumeVars, call, rayVars, m_config, m_pCamera, m_pGradientVolume, last, rendered, pc>>

\* every task has finished: parallel_for and render() return (renderer.cpp:135-140)
Join ==
    /\ pc = "parallel_for"
    /\ \A t \in tiles : t.state = "done"
    /\ pc' = "joined"
    /\ UNCHANGED <<volumeVars, call, rayVars, rendererVars, tiles, writes>>

NextPass == BeginRender \/ SplitRows \/ SplitCols \/ StartTask \/ TaskPixel \/ Join

SpecPass == InitPass /\ [][NextPass]_vars

(***************************************************************************)
(* A client intersecting rays with boxes.                                  *)
(***************************************************************************)
OriginArgs == (-Q)..(Q * MaxDim)

DirArgs == ((-MaxDir)..MaxDir) \ {0}

\* the bounds of the volumes, and a box that is flat along z
Boxes ==
    {BoundsOf(d) : d \in Dims} \cup {[lower |-> <<0, 0, 0>>, upper |-> <<Q, Q, 0>>]}

\* what the two uninitialized floats of a Ray hold: different values
GarbageIntervals == {g \in TGarbage \X TGarbage : g[1] # g[2]}

Rays(g) ==
    [origin : OriginArgs \X OriginArgs \X OriginArgs,
     direction : DirArgs \X DirArgs \X DirArgs,
     tmin : {g[1]}, tmax : {g[2]}]

InitRay ==
    /\ m_dim = <<2, 2, 2>> /\ m_data = ExampleData
    /\ Constructed
    /\ interpolationMode = "NearestNeighbour" /\ a = -2
    /\ call = NoCall
    /\ \E g \in GarbageIntervals : ray \in Rays(g)
    /\ bounds \in Boxes
    /\ returned = "none"
    /\ IdleRenderer

\* call records the values of ray.tmin and ray.tmax at the time of the call
Intersect ==
    /\ returned = "none"
    /\ LET res == instersectRayVolumeBounds(ray, bounds)
       IN  /\ ray' = [ray EXCEPT !.tmin = res.tmin, !.tmax = res.tmax]
           /\ returned' = IF res.hit THEN "true" ELSE "false"
    /\ call' = [fn |-> "instersectRayVolumeBounds", args |-> <<ray.tmin, ray.tmax>>,
                result |-> 0]
    /\ UNCHANGED <<volumeVars, bounds, rendererVars, passVars>>

NextRay == Intersect

SpecRay == InitRay /\ [][NextRay]_vars

(***************************************************************************)
(* The sampling interface of a Volume, called by a client.                 *)
(***************************************************************************)
VoxelArgs == (-1)..(MaxDim + 1)

SampleArgs == (-Q)..(Q * MaxDim)

InitVolume ==
    /\ \E v \in Volumes : m_dim = v.dim /\ m_data = v.data
    /\ Constructed
    /\ interpolationMode \in InterpolationModes
    /\ a \in AValues
    /\ call = NoCall
    /\ ray = IdleRay /\ bounds = BoundsOf(m_dim) /\ returned = "none"
    /\ IdleRenderer

CallGetVoxel ==
    /\ call = NoCall
    /\ \E x \in VoxelArgs, y \in VoxelArgs, z \in VoxelArgs :
         call' = [fn |-> "getVoxel", args |-> <<x, y, z>>, result |-> getVoxel(x, y, z)]
    /\ UNCHANGED <<volumeVars, rayVars, rendererVars, passVars>>

CallGetVoxelInterpolate ==
    /\ call = NoCall
    /\ \E cx \in SampleArgs, cy \in SampleArgs, cz \in SampleArgs :
         call' = [fn |-> interpolationMode, args |-> <<cx, cy, cz>>,
                  result |-> getVoxelInterpolate(<<cx, cy, cz>>)]
    /\ UNCHANGED <<volumeVars, rayVars, rendererVars, passVars>>

Return ==
    /\ call # NoCall
    /\ call' = NoCall
    /\ UNCHANGED <<volumeVars, rayVars, rendererVars, passVars>>

NextVolume == CallGetVoxel \/ CallGetVoxelInterpolate \/ Return

SpecVolume == InitVolume /\ [][NextVolume]_vars

(***************************************************************************)
(* The construction of a Volume (volume.cpp:26-51), by a caller that has   *)
(* either a file or an array with its dimensions.  Before the constructor  *)
(* has run the object is raw memory: the vectors are made empty by their   *)
(* own default construction, the two floats hold whatever the memory held. *)
(***************************************************************************)
\* the content of a float member that nothing has assigned
UnsetStatistics == {-1, 0, 5}

\* a parsed Header (volume.cpp:255-307): dim is zero where the file names no
\* dimension, elementSize is 0 where it names no data type
Headers ==
    [dim : {<<k, 1, 1>> : k \in 0..MaxDim} \cup {<<MaxDim, 1, 0>>}, elementSize : 0..2]

\* the bytes of the data section, each as buffer[i] & 0xFF leaves it
FileBytes == {0, 1, 2}

Buffers(header) == [1..(VoxelCount(header.dim) * header.elementSize) -> FileBytes]

\* the conversion loops of Volume::loadFile (volume.cpp:242-251)
loadFile(header, buffer) ==
    [i \in 1..VoxelCount(header.dim) |->
        CASE header.elementSize = 1 -> buffer[i]
          [] header.elementSize = 2 -> buffer[2 * i - 1] + buffer[2 * i] * 256
          [] OTHER -> 0]

\* the scenario of the histogram
ScenarioData == <<0, 0, 1, 1, 1, 2>>

\* what a caller passes to Volume(data, dim)
DataArgs ==
    Volumes \cup {[dim |-> <<3, 2, 1>>, data |-> ScenarioData]}
    \cup UNION {{[dim |-> <<k, 1, 1>>, data |-> d] : d \in [1..k -> FileBytes]} : k \in 1..MaxDim}

InitConstruct ==
    /\ m_dim = <<0, 0, 0>> /\ m_data = <<>> /\ m_histogram = <<>>
    /\ m_minimum \in UnsetStatistics /\ m_maximum \in UnsetStatistics
    /\ interpolationMode = "NearestNeighbour"
    /\ a = -2
    /\ call = NoCall
    /\ ray = IdleRay /\ bounds = BoundsOf(<<2, 2, 2>>) /\ returned = "none"
    /\ IdleRenderer

\* Volume::Volume(const std::filesystem::path&) (volume.cpp:26-40)
VolumeFromFile ==
    /\ call = NoCall
    /\ \E header \in Headers : \E buffer \in Buffers(header) :
         LET data == loadFile(header, buffer)
         IN  /\ m_dim' = header.dim
             /\ m_data' = data
             /\ IF Len(data) > 0
                 THEN /\ m_minimum' = computeMinimum(data)
                      /\ m_maximum' = computeMaximum(data)
                      /\ m_histogram' = computeHistogram(data)
                 ELSE UNCHANGED <<m_minimum, m_maximum, m_histogram>>
             /\ call' = [fn |-> "Volume(file)", args |-> <<header, buffer>>, result |-> 0]
    /\ UNCHANGED <<interpolationMode, a, rayVars, rendererVars, passVars>>

\* Volume::Volume(std::vector<uint16_t>, const glm::ivec3&) (volume.cpp:42-51)
VolumeFromData ==
    /\ call = NoCall
    /\ \E v \in DataArgs :
         /\ m_dim' = v.dim
         /\ m_data' = v.data
         /\ m_minimum' = computeMinimum(v.data)
         /\ m_maximum' = computeMaximum(v.data)
         /\ m_histogram' = computeHistogram(v.data)
         /\ call' = [fn |-> "Volume(data)", args |-> <<v.data, v.dim>>, result |-> 0]
    /\ UNCHANGED <<interpolationMode, a, rayVars, rendererVars, passVars>>

NextConstruct == VolumeFromFile \/ VolumeFromData

SpecConstruct == InitConstruct /\ [][NextConstruct]_vars

(***************************************************************************)
(* Renderer::bisectionAccuracy (renderer.cpp:222-248), one step per        *)
(* evaluation of the loop condition.  A float ray parameter is a fixed     *)
(* point number <<n, TDen>> with FloatBits binary digits below the unit of *)
(* t: halving a bracket is exact until the digits are used up, and then    *)
(* the midpoint rounds onto an end of the bracket, as it does in float.    *)
(* The frame of the call is held in `call'.                                *)
(***************************************************************************)
FloatBits == 3

TDen == 2 ^ FloatBits

\* int maxIterations = 500
MaxIterations == 500

\* minDifference = 0.0001f, as 1 / MinDifferenceInv
MinDifferenceInv == 10000

\* a ray parameter as a float
ToFloat(t) == <<(t[1] * TDen) \div t[2], TDen>>

\* (t0 + t1) / 2
Mid(t0, t1) == <<(t0[1] + t1[1]) \div 2, TDen>>

\* std::abs(voxelValue - isoValue) < minDifference, voxelValue scaled by VS
WithinMinDifference(voxelValue) ==
    Abs(voxelValue - VS * m_config.isoValue) <= (VS - 1) \div MinDifferenceInv

\* getVoxelInterpolate(ray.origin + tMiddle * ray.direction)
SampleAt(t) == getVoxelInterpolate(PointAt(ray, t))

\* The loop body with the test of line 238 on the signed difference.
bisectionBody_NoAbs(f) ==
    LET tMiddle == Mid(f.t0, f.t1)
        voxelValue == SampleAt(tMiddle)
        g == [f EXCEPT !.maxIterations = f.maxIterations - 1, !.tMiddle = tMiddle,
                       !.last = <<f.t0, f.t1>>]
    IN  IF voxelValue - VS * m_config.isoValue <= (VS - 1) \div MinDifferenceInv
        THEN [g EXCEPT !.pc = "returned", !.result = tMiddle, !.early = TRUE]
        ELSE IF voxelValue < VS * m_config.isoValue
        THEN [g EXCEPT !.t0 = tMiddle]
        ELSE [g EXCEPT !.t1 = tMiddle]

\* The loop body (renderer.cpp:232-244) on the frame f of the call.
bisectionBody(f) ==
    LET tMiddle == Mid(f.t0, f.t1)
        voxelValue == SampleAt(tMiddle)
        g == [f EXCEPT !.maxIterations = f.maxIterations - 1, !.tMiddle = tMiddle,
                       !.last = <<f.t0, f.t1>>]
    IN  IF WithinMinDifference(voxelValue)
        THEN [g EXCEPT !.pc = "returned", !.result = tMiddle, !.early = TRUE]
        ELSE IF voxelValue < VS * m_config.isoValue
        THEN [g EXCEPT !.t0 = tMiddle]
        ELSE [g EXCEPT !.t1 = tMiddle]

\* isoValue of the config: a value some voxel of every volume exceeds, and
\* one above every voxel
BisectIsoValues == {3, 200}

\* the ends of a bracket: multiples of half a sample step
BracketArgs == {<<k * ((Q * TDen) \div 2), TDen>> : k \in (-1)..(2 * MaxDim)}

\* brackets of up to two sample steps
Brackets ==
    {b \in BracketArgs \X BracketArgs :
        b[1][1] < b[2][1] /\ b[2][1] <= b[1][1] + 2 * Q * TDen}

\* the ray of the default camera's first pixel, and a ray along the z axis
BisectRays ==
    {[origin |-> DefaultCamera.position, direction |-> DefaultCamera.forward,
      tmin |-> Zero, tmax |-> Zero],
     [origin |-> <<0, 0, 0>>, direction |-> <<0, 0, 1>>, tmin |-> Zero, tmax |-> Zero]}

InitBisect ==
    /\ \E v \in Volumes : m_dim = v.dim /\ m_data = v.data
    /\ Constructed
    /\ interpolationMode \in {"NearestNeighbour", "Linear"}
    /\ a = -2
    /\ call = NoCall
    /\ ray \in BisectRays
    /\ bounds = BoundsOf(m_dim) /\ returned = "none"
    /\ \E iso \in BisectIsoValues :
         m_config = [DefaultConfig EXCEPT !.renderMode = "RenderIso", !.isoValue = iso,
                                          !.volumeShading = TRUE]
    /\ m_frameBuffer = <<>>
    /\ m_pCamera = DefaultCamera
    /\ m_pGradientVolume = NoGradients
    /\ last = NoOp
    /\ rendered = <<>>
    /\ pc = "idle" /\ tiles = {} /\ writes = <<>>

\* lines 225-228: the locals before the loop
CallBisection ==
    /\ call = NoCall
    /\ \E b \in Brackets :
         call' = [fn |-> "bisectionAccuracy", args |-> b,
                  t0 |-> b[1], t1 |-> b[2], tMiddle |-> Mid(b[1], b[2]),
                  maxIterations |-> MaxIterations, last |-> b,
                  pc |-> "while", early |-> FALSE, result |-> Zero]
    /\ UNCHANGED <<volumeVars, rayVars, rendererVars, passVars>>

\* lines 230-245: the loop condition holds, one pass of the body
BisectionIterate ==
    /\ call.fn = "bisectionAccuracy" /\ call.pc = "while"
    /\ call.maxIterations > 0
    /\ call' = bisectionBody(call)
    /\ UNCHANGED <<volumeVars, rayVars, rendererVars, passVars>>

\* line 247: the loop condition fails, return tMiddle
BisectionExit ==
    /\ call.fn = "bisectionAccuracy" /\ call.pc = "while"
    /\ ~(call.maxIterations > 0)
    /\ call' = [call EXCEPT !.pc = "returned", !.result = call.tMiddle]
    /\ UNCHANGED <<volumeVars, rayVars, rendererVars, passVars>>

NextBisect == CallBisection \/ BisectionIterate \/ BisectionExit

SpecBisect == InitBisect /\ [][NextBisect]_vars

\* the caller's thread runs the call to its end
SpecBisectFair == SpecBisect /\ WF_vars(NextBisect)

(***************************************************************************)
(* A client tracing single rays with Renderer::traceRayMIP over intervals  *)
(* [tmin, tmax] whose ends are multiples of 1/Q of a sample step.          *)
(***************************************************************************)
TraceTArgs == {<<k, 1>> : k \in 0..(Q * MaxDim)}

TraceOrigins == {<<0, 0, 0>>, <<1, 0, 0>>}

TraceDirections == {<<0, 0, 1>>, <<1, 1, 1>>, <<1, 0, 0>>}

TraceRays ==
    [origin : TraceOrigins, direction : TraceDirections,
     tmin : TraceTArgs, tmax : TraceTArgs]

InitMIP ==
    /\ \E v \in Volumes : m_dim = v.dim /\ m_data = v.data
    /\ Constructed
    /\ interpolationMode \in InterpolationModes
    /\ a = -2
    /\ call = NoCall
    /\ ray \in TraceRays
    /\ bounds = BoundsOf(m_dim) /\ returned = "none"
    /\ IdleRenderer

CallTraceRayMIP ==
    /\ call = NoCall
    /\ call' = [fn |-> "traceRayMIP", args |-> <<ray.tmin, ray.tmax>>,
                result |-> traceRayMIP(ray)]
    /\ UNCHANGED <<volumeVars, rayVars, rendererVars, passVars>>

NextMIP == CallTraceRayMIP

SpecMIP == InitMIP /\ [][NextMIP]_vars

(***************************************************************************)
(* A client tracing single rays with the compositing modes.  The rays run  *)
(* along the z or the x axis, the camera (the light) stands on the z axis  *)
(* and the gradients point along z.                                        *)
(***************************************************************************)
Half == <<1, 2>>

\* 1D transfer functions: RGBA entries within [0,1]
ColorMaps ==
    {<<ZeroColor, <<One, Half, Zero, Half>>, <<One, One, One, One>>>>,
     <<(<<Zero, Zero, One, One>>), <<One, Zero, Zero, Half>>>>}

\* the fields of RenderConfig the transfer functions read; tfColorMapIndexRange
\* is the range of the graded volumes
TFConfigs ==
    [renderResolution : {<<1, 1>>}, renderMode : {"RenderComposite"},
     isoValue : {3}, volumeShading : BOOLEAN,
     tfColorMap : ColorMaps, tfColorMapIndexStart : {0},
     tfColorMapIndexRange : {4 * MaxDim},
     TF2DIntensity : {3}, TF2DRadius : {3},
     TF2DColor : {<<One, Half, Zero, Half>>},
     TF2DV2Intensity_0 : {2}, TF2DV2Radius_0 : {2},
     TF2DV2Color_0 : {<<One, Zero, Zero, One>>},
     TF2DV2Intensity_1 : {5}, TF2DV2Radius_1 : {3},
     TF2DV2Color_1 : {<<Zero, Half, One, Half>>}]

\* gradients along z: the largest magnitude of the 2D transfer function,
\* about half of it, and none
GradientVoxels ==
    {[dir |-> <<0, 0, g>>, magnitude |-> Abs(g)] : g \in {-255, -128, 0, 255}}

\* gradient volumes with the same gradient at every voxel
GradientVolumes == {[i \in 1..VoxelCount(m_dim) |-> g] : g \in GradientVoxels}

CompositeCameras ==
    {[position |-> <<0, 0, -Q>>, forward |-> <<0, 0, 1>>],
     [position |-> <<0, 0, 2 * Q>>, forward |-> <<0, 0, -1>>]}

CompositeRays ==
    {[origin |-> <<0, 0, 0>>, direction |-> <<0, 0, 1>>, tmin |-> Zero, tmax |-> t] :
        t \in TraceTArgs}
    \cup {[origin |-> <<1, 0, Q>>, direction |-> <<0, 0, -1>>, tmin |-> Zero, tmax |-> t] :
        t \in TraceTArgs}
    \cup {[origin |-> <<0, 1, 0>>, direction |-> <<1, 0, 0>>, tmin |-> <<1, 1>>, tmax |-> t] :
        t \in TraceTArgs}

InitComposite ==
    /\ \E v \in Volumes : m_dim = v.dim /\ m_data = v.data
    /\ Constructed
    /\ interpolationMode \in InterpolationModes
    /\ a = -2
    /\ call = NoCall
    /\ ray \in CompositeRays
    /\ bounds = BoundsOf(m_dim) /\ returned = "none"
    /\ m_config \in TFConfigs
    /\ m_frameBuffer = <<ZeroColor>>
    /\ m_pCamera \in CompositeCameras
    /\ m_pGradientVolume \in GradientVolumes
    /\ last = NoOp
    /\ rendered = <<>>
    /\ pc = "idle" /\ tiles = {} /\ writes = <<>>

CallTraceRayComposite ==
    /\ call = NoCall
    /\ call' = [fn |-> "traceRayComposite", args |-> <<ray.tmin, ray.tmax>>,
                result |-> traceRayComposite(ray)]
    /\ UNCHANGED <<volumeVars, rayVars, rendererVars, passVars>>

CallTraceRayTF2D ==
    /\ call = NoCall
    /\ call' = [fn |-> "traceRayTF2D", args |-> <<ray.tmin, ray.tmax>>,
                result |-> traceRayTF2D(ray)]
    /\ UNCHANGED <<volumeVars, rayVars, rendererVars, passVars>>

CallTraceRayTF2DV2 ==
    /\ call = NoCall
    /\ call' = [fn |-> "traceRayTF2DV2", args |-> <<ray.tmin, ray.tmax>>,
                result |-> traceRayTF2DV2(ray)]
    /\ UNCHANGED <<volumeVars, rayVars, rendererVars, passVars>>

NextComposite == CallTraceRayComposite \/ CallTraceRayTF2D \/ CallTraceRayTF2DV2

SpecComposite == InitComposite /\ [][NextComposite]_vars

(***************************************************************************)
(* Renderer::traceRayISO (renderer.cpp:179-217) with both of its branches, *)
(* one step per evaluation of the loop condition.  The frame of the call   *)
(* is held in `call': samples is the history of the ray parameters the     *)
(* loop has sampled the volume at, bisected the history of the brackets    *)
(* handed to bisectionAccuracy.  While bisectionAccuracy runs, `call' is   *)
(* its frame and the field caller is the frame it returns to.              *)
(***************************************************************************)
\* lines 207-209 at the position sample_pos
isoShade(f, sample_pos) ==
    LET gradient == getGradientVoxel(sample_pos)
    IN  [f EXCEPT !.sample_pos = sample_pos,
                  !.result = Opaque(computePhongShading(Vec3(IsoColor), gradient,
                                                        m_pCamera.position, ray.direction)),
                  !.pc = "returned"]

\* The loop body that refines every crossing, the first sample's too.
isoBody_AlwaysBisect(f) ==
    LET voxel_value == getVoxelInterpolate(f.sample_pos)
        g == [f EXCEPT !.samples = Append(@, f.t)]
    IN  IF voxel_value > VS * m_config.isoValue
        THEN IF ~m_config.volumeShading
             THEN [g EXCEPT !.result = IsoColor, !.pc = "returned"]
             ELSE [g EXCEPT !.pc = "bisect",
                            !.bisected = Append(@, <<ToFloat(StepBackT(f.t)), ToFloat(f.t)>>)]
        ELSE [g EXCEPT !.t = StepT(f.t), !.sample_pos = StepPos(ray, f.sample_pos),
                       !.atLeastTwoSteps = TRUE]

\* The loop body that goes on after a crossing.
isoBody_NoBreak(f) ==
    LET voxel_value == getVoxelInterpolate(f.sample_pos)
        g == [f EXCEPT !.samples = Append(@, f.t), !.t = StepT(f.t),
                       !.sample_pos = StepPos(ray, f.sample_pos),
                       !.atLeastTwoSteps = TRUE]
    IN  IF voxel_value > VS * m_config.isoValue
        THEN [g EXCEPT !.result = IsoColor]
        ELSE g

\* The loop body of either branch (renderer.cpp:187-192, 201-212) on the
\* frame f, up to the call of bisectionAccuracy.
isoBody(f) ==
    LET voxel_value == getVoxelInterpolate(f.sample_pos)
        g == [f EXCEPT !.samples = Append(@, f.t)]
    IN  IF voxel_value > VS * m_config.isoValue
        THEN IF ~m_config.volumeShading
             THEN [g EXCEPT !.result = IsoColor, !.pc = "returned"]
             ELSE IF f.atLeastTwoSteps
             THEN [g EXCEPT !.pc = "bisect",
                            !.bisected = Append(@, <<ToFloat(StepBackT(f.t)), ToFloat(f.t)>>)]
             ELSE isoShade(g, g.sample_pos)
        ELSE [g EXCEPT !.t = StepT(f.t), !.sample_pos = StepPos(ray, f.sample_pos),
                       !.atLeastTwoSteps = TRUE]

\* gradients along z, and none
IsoGradientVolumes ==
    {[i \in 1..VoxelCount(m_dim) |-> g] :
        g \in {ZeroGradient, [dir |-> <<0, 0, -255>>, magnitude |-> 255]}}

InitISO ==
    /\ \E v \in Volumes : m_dim = v.dim /\ m_data = v.data
    /\ Constructed
    /\ interpolationMode \in {"NearestNeighbour", "Linear"}
    /\ a = -2
    /\ call = NoCall
    /\ ray \in CompositeRays
    /\ bounds = BoundsOf(m_dim) /\ returned = "none"
    /\ \E iso \in BisectIsoValues, shading \in BOOLEAN :
         m_config = [DefaultConfig EXCEPT !.renderMode = "RenderIso", !.isoValue = iso,
                                          !.volumeShading = shading]
    /\ m_frameBuffer = <<ZeroColor>>
    /\ m_pCamera = [position |-> <<0, 0, -Q>>, forward |-> <<0, 0, 1>>]
    /\ m_pGradientVolume \in IsoGradientVolumes
    /\ last = NoOp
    /\ rendered = <<>>
    /\ pc = "idle" /\ tiles = {} /\ writes = <<>>

\* lines 181-186, 196-200: the locals before the loop
CallTraceRayISO ==
    /\ call = NoCall
    /\ call' = [fn |-> "traceRayISO", args |-> <<ray.tmin, ray.tmax>>,
                t |-> ray.tmin, sample_pos |-> PointAt(ray, ray.tmin),
                atLeastTwoSteps |-> FALSE, samples |-> <<>>, bisected |-> <<>>,
                pc |-> "for", result |-> ZeroColor]
    /\ UNCHANGED <<volumeVars, rayVars, rendererVars, passVars>>

\* the loop condition holds, one pass of the body
ISOIterate ==
    /\ call.fn = "traceRayISO" /\ call.pc = "for"
    /\ FLeq(call.t, ray.tmax)
    /\ call' = isoBody(call)
    /\ UNCHANGED <<volumeVars, rayVars, rendererVars, passVars>>

\* the loop condition fails: line 216
ISOExit ==
    /\ call.fn = "traceRayISO" /\ call.pc = "for"
    /\ ~FLeq(call.t, ray.tmax)
    /\ call' = [call EXCEPT !.pc = "returned"]
    /\ UNCHANGED <<volumeVars, rayVars, rendererVars, passVars>>

\* line 204: the call of bisectionAccuracy, and its lines 225-228
ISOCallBisection ==
    /\ call.fn = "traceRayISO" /\ call.pc = "bisect"
    /\ LET b == call.bisected[Len(call.bisected)]
       IN  call' = [fn |-> "bisectionAccuracy", args |-> b,
                    t0 |-> b[1], t1 |-> b[2], tMiddle |-> Mid(b[1], b[2]),
                    maxIterations |-> MaxIterations, last |-> b,
                    pc |-> "while", early |-> FALSE, result |-> Zero,
                    caller |-> call]
    /\ UNCHANGED <<volumeVars, rayVars, rendererVars, passVars>>

\* lines 204-210: bisectionAccuracy has returned
ISOResume ==
    /\ call.fn = "bisectionAccuracy" /\ call.pc = "returned"
    /\ "caller" \in DOMAIN call
    /\ call' = isoShade([call.caller EXCEPT !.t = call.result], PointAt(ray, call.result))
    /\ UNCHANGED <<volumeVars, rayVars, rendererVars, passVars>>

NextISO ==
    \/ CallTraceRayISO \/ ISOIterate \/ ISOExit \/ ISOCallBisection
    \/ BisectionIterate \/ BisectionExit \/ ISOResume

SpecISO == InitISO /\ [][NextISO]_vars

(***************************************************************************)
(* A client of the 2D transfer functions: it classifies single points      *)
(* (intensity, gradient magnitude) as the compositing loops do.            *)
(***************************************************************************)
\* configs whose two classifiers of variant 2 overlap, or are apart
ClassifierConfigs ==
    {c \in [renderResolution : {<<1, 1>>}, renderMode : {"RenderTF2D"},
            isoValue : {3}, volumeShading : {FALSE},
            tfColorMap : ColorMaps, tfColorMapIndexStart : {0},
            tfColorMapIndexRange : {4 * MaxDim},
            TF2DIntensity : {3, 4}, TF2DRadius : {1, 3},
            TF2DColor : {<<One, Half, Zero, Half>>},
            TF2DV2Intensity_0 : {2}, TF2DV2Radius_0 : {2},
            TF2DV2Color_0 : {<<One, Zero, Zero, One>>},
            TF2DV2Intensity_1 : {3, 7}, TF2DV2Radius_1 : {1, 3},
            TF2DV2Color_1 : {<<Zero, Half, One, Half>>}] :
        c.tfColorMap \in {m \in ColorMaps : Len(m) = 2}}

\* intensities: the halves from 0 to 4 * MaxDim
IntensityArgs == {<<k, 2>> : k \in 0..(8 * MaxDim)}

\* gradient magnitudes
MagnitudeArgs == {Flt(m) : m \in {0, 1, 64, 128, 192, 255, 256}}

InitTF ==
    /\ m_dim = <<2, 2, 2>> /\ m_data = ExampleData
    /\ Constructed
    /\ interpolationMode = "NearestNeighbour" /\ a = -2
    /\ call = NoCall
    /\ ray = IdleRay /\ bounds = BoundsOf(m_dim) /\ returned = "none"
    /\ m_config \in ClassifierConfigs
    /\ m_frameBuffer = <<ZeroColor>>
    /\ m_pCamera = DefaultCamera
    /\ m_pGradientVolume = NoGradients
    /\ last = NoOp
    /\ rendered = <<>>
    /\ pc = "idle" /\ tiles = {} /\ writes = <<>>

\* getTF2DOpacity(intensity, gradient.magnitude) (renderer.cpp:295); inside
\* is what inTriangle returned to it (line 385)
CallGetTF2DOpacity ==
    /\ call = NoCall
    /\ \E intensity \in IntensityArgs, magnitude \in MagnitudeArgs :
         call' = [fn |-> "getTF2DOpacity", args |-> <<intensity, magnitude>>,
                  inside |-> inTriangle(Flt(m_config.TF2DIntensity - m_config.TF2DRadius),
                                        Flt(m_config.TF2DIntensity),
                                        Flt(m_config.TF2DIntensity + m_config.TF2DRadius),
                                        intensity, magnitude),
                  result |-> getTF2DOpacity(intensity, magnitude)]
    /\ UNCHANGED <<volumeVars, rayVars, rendererVars, passVars>>

\* the two lookups of one sample of traceRayTF2DV2 (renderer.cpp:456-458)
CallGetTF2DV2 ==
    /\ call = NoCall
    /\ \E intensity \in IntensityArgs, magnitude \in MagnitudeArgs :
         call' = [fn |-> "getTF2DV2", args |-> <<intensity, magnitude>>,
                  opacity |-> getTF2DV2Opacity(intensity, magnitude),
                  color |-> getTF2DV2Color(intensity, magnitude),
                  result |-> Zero]
    /\ UNCHANGED <<volumeVars, rayVars, rendererVars, passVars>>

NextTF == CallGetTF2DOpacity \/ CallGetTF2DV2

SpecTF == InitTF /\ [][NextTF]_vars

(***************************************************************************)
(* Properties of the sampling interface.                                   *)
(***************************************************************************)
InDim(k, i) == 0 <= i /\ i < m_dim[k]

\* the component c (units 1/Q) of axis k lies in [0, dim)
InVolume(k, c) == 0 <= c /\ c < Q * m_dim[k]

IsSample == call.fn \in InterpolationModes

\* C6: getVoxel(x,y,z) returns 0 when a component is outside [0,dim) on its
\* axis, and the scalar stored at x + dim.x*(y + dim.y*z) otherwise.
C6_GetVoxelChecksEveryAxis ==
    call.fn = "getVoxel" =>
        LET x == call.args[1]
            y == call.args[2]
            z == call.args[3]
        IN  call.result =
              IF InDim(1, x) /\ InDim(2, y) /\ InDim(3, z)
              THEN m_data[x + m_dim[1] * (y + m_dim[2] * z) + 1]
              ELSE 0

\* C7: trilinear and tricubic interpolation at an in-bounds integer
\* coordinate (the last index dim-1 included) return getVoxel there.
C7_InterpolationIdentityAtGridPoints ==
    (/\ call.fn \in {"Linear", "Cubic"}
     /\ \A k \in 1..3 : call.args[k] % Q = 0 /\ InVolume(k, call.args[k]))
    => call.result = VS * getVoxel(call.args[1] \div Q, call.args[2] \div Q,
                                   call.args[3] \div Q)

\* C8 as stated: a sample with a component outside [0,dim) is 0 in all
\* three modes, components in [-0.5, 0) included.
C8_OutsideSamplesAreZero ==
    (IsSample /\ \E k \in 1..3 : ~InVolume(k, call.args[k]))
    => call.result = 0

\* C8 amended: trilinear and tricubic sampling return 0 when a component is
\* outside [0,dim); nearest-neighbour sampling returns 0 when a component is
\* below -0.5 or at least dim.
C8_OutsideSamplesAreZeroAmended ==
    /\ (call.fn \in {"Linear", "Cubic"} /\ \E k \in 1..3 : ~InVolume(k, call.args[k]))
         => call.result = 0
    /\ (call.fn = "NearestNeighbour"
         /\ \E k \in 1..3 : 2 * call.args[k] < -Q \/ call.args[k] >= Q * m_dim[k])
         => call.result = 0

\* C8 witness: a nearest-neighbour sample whose x is at least dim.x, the
\* other two components on stored non-zero voxels, returned 0.
C8_Witness ==
    /\ call.fn = "NearestNeighbour"
    /\ call.args[1] >= Q * m_dim[1]
    /\ call.args[2] = 0 /\ call.args[3] = 0
    /\ m_data[1] # 0
    /\ call.result = 0

(***************************************************************************)
(* Properties of the ray/box intersection.                                 *)
(***************************************************************************)
OriginInside == \A k \in 1..3 : bounds.lower[k] <= ray.origin[k] /\ ray.origin[k] <= bounds.upper[k]

\* C9: when instersectRayVolumeBounds returns true (direction components
\* non-zero, lower <= upper), the stored values satisfy tmin <= tmax.
C9_HitHasOrderedInterval ==
    returned = "true" => FLeq(ray.tmin, ray.tmax)

\* C9 witness: a hit from an origin outside the box with tmin < tmax.
C9_Witness ==
    /\ returned = "true"
    /\ ~OriginInside
    /\ FLess(ray.tmin, ray.tmax)
    /\ FLess(Zero, ray.tmin)

\* C10: for an origin inside the box and non-zero direction components,
\* instersectRayVolumeBounds returns true with tmin <= 0 <= tmax.
C10_InsideOriginHits ==
    (returned # "none" /\ OriginInside) =>
        /\ returned = "true"
        /\ FLeq(ray.tmin, Zero)
        /\ FLeq(Zero, ray.tmax)

\* C10 witness: a hit from an origin strictly inside, with tmin < 0 < tmax.
C10_Witness ==
    /\ returned = "true"
    /\ \A k \in 1..2 : bounds.lower[k] < ray.origin[k] /\ ray.origin[k] < bounds.upper[k]
    /\ OriginInside
    /\ FLess(ray.tmin, Zero)
    /\ FLess(Zero, ray.tmax)

\* the x/y slabs of the call overlap, so a miss is the second rejection
XYOverlap ==
    LET tx == Slab(ray, bounds, 1)
        ty == Slab(ray, bounds, 2)
    IN  ~(FLess(ty[2], tx[1]) \/ FLess(tx[2], ty[1]))

\* C11: when instersectRayVolumeBounds returns false, on either rejection,
\* ray.tmin and ray.tmax have the values they had before the call.
C11_MissKeepsInterval ==
    returned = "false" => ray.tmin = call.args[1] /\ ray.tmax = call.args[2]

\* C11 witness: a miss on the z slab (the x/y interval was already computed)
\* that left a tmin above tmax, as they were.
C11_Witness ==
    /\ returned = "false"
    /\ XYOverlap
    /\ ray.tmin = <<5, 1>> /\ ray.tmax = <<0, 1>>
    /\ call.args = <<ray.tmin, ray.tmax>>

\* C11 witness of the first rejection
C11_WitnessXY ==
    /\ returned = "false"
    /\ ~XYOverlap
    /\ ray.tmin = <<0, 1>> /\ ray.tmax = <<5, 1>>

(***************************************************************************)
(* Properties of the bisection.                                            *)
(***************************************************************************)
InBisection == call.fn = "bisectionAccuracy"

BisectionReturned == InBisection /\ call.pc = "returned"

\* the number of samples the call has taken
SamplesTaken == MaxIterations - call.maxIterations

\* what holds of a call at every point: at most 500 samples, and on return
\* the early exit was taken exactly when the returned point is within
\* minDifference of isoValue; otherwise 500 samples were taken and the
\* result is the midpoint of the bracket of the last iteration
BisectionBounded ==
    InBisection =>
        /\ 0 <= SamplesTaken /\ SamplesTaken <= MaxIterations
        /\ call.pc = "returned" =>
             /\ call.early <=> WithinMinDifference(SampleAt(call.result))
             /\ ~call.early =>
                  /\ SamplesTaken = MaxIterations
                  /\ call.result = Mid(call.last[1], call.last[2])

\* C12: bisectionAccuracy returns after at most 500 samples for every
\* bracket and field; it returns early exactly when the sample at the
\* midpoint is within 1e-4 of isoValue, else the last midpoint.
C12_BisectionTerminates ==
    /\ []BisectionBounded
    /\ (InBisection ~> BisectionReturned)

\* C12 witness: a call on a field that never comes near isoValue returned
\* the last midpoint after 500 samples.
C12_Witness ==
    /\ BisectionReturned
    /\ ~call.early
    /\ SamplesTaken = MaxIterations
    /\ ~WithinMinDifference(SampleAt(call.result))

\* C12 witness of the early exit, after more than one sample
C12_WitnessEarly ==
    /\ BisectionReturned
    /\ call.early
    /\ SamplesTaken > 1

(***************************************************************************)
(* Properties of the maximum intensity projection.                         *)
(***************************************************************************)
\* the k-th sample of a march backward from tmax: its parameter and position
BackT(k) == <<ray.tmax[1] - k * sampleStep * ray.tmax[2], ray.tmax[2]>>

BackPos(k) ==
    [i \in 1..3 |-> PointAt(ray, ray.tmax)[i] - k * sampleStep * ray.direction[i]]

\* the samples at tmax, tmax - step, ... >= tmin
BackwardSamples ==
    {getVoxelInterpolate(BackPos(k)) :
        k \in {j \in 0..(MaxDim + 1) : FLeq(ray.tmin, BackT(j))}}

\* the maximum of the backward samples, from 0 as traceRayMIP does
BackwardMax ==
    CHOOSE m \in BackwardSamples \cup {0} : \A v \in BackwardSamples \cup {0} : v <= m

\* the color traceRayMIP makes of a maximum
MIPColor(maxVal) ==
    LET gray == Frac(maxVal, VS * maximum)
    IN  <<gray, gray, gray, One>>

\* tmax - tmin is a multiple of the sample step
WholeSteps ==
    (ray.tmax[1] * ray.tmin[2] - ray.tmin[1] * ray.tmax[2])
        % (sampleStep * ray.tmin[2] * ray.tmax[2]) = 0

\* C13 as stated: the maximum over the forward samples tmin, tmin+step, ...
\* <= tmax equals the maximum over the backward samples tmax, tmax-step, ...
\* >= tmin, for every interval.
C13_MIPStepDirection ==
    call.fn = "traceRayMIP" => call.result = MIPColor(BackwardMax)

\* C13 amended: the two maxima are equal when tmax - tmin is a multiple of
\* the step.
C13_MIPStepDirectionWholeSteps ==
    (call.fn = "traceRayMIP" /\ WholeSteps) => call.result = MIPColor(BackwardMax)

\* C13 witness: an interval of two or more whole steps on which the samples
\* differ, and the forward maximum is the non-zero backward maximum.
C13_Witness ==
    /\ call.fn = "traceRayMIP"
    /\ WholeSteps
    /\ FLeq(StepT(StepT(ray.tmin)), ray.tmax)
    /\ Cardinality(BackwardSamples) > 1
    /\ BackwardMax > 0
    /\ call.result = MIPColor(BackwardMax)

(***************************************************************************)
(* Properties of the compositing modes.                                    *)
(***************************************************************************)
IsComposite == call.fn \in {"traceRayComposite", "traceRayTF2D", "traceRayTF2DV2"}

InUnitRange(c) == FLeq(Zero, c) /\ FLeq(c, One)

\* every color and alpha of the transfer functions in the config is in [0,1]
ConfigColorsInUnitRange ==
    /\ \A i \in 1..Len(m_config.tfColorMap), k \in 1..4 :
         InUnitRange(m_config.tfColorMap[i][k])
    /\ \A k \in 1..4 :
         /\ InUnitRange(m_config.TF2DColor[k])
         /\ InUnitRange(m_config.TF2DV2Color_0[k])
         /\ InUnitRange(m_config.TF2DV2Color_1[k])

\* C14: with every transfer-function color and alpha in [0,1], the color a
\* compositing loop (1D, 2D variant 1, 2D variant 2) returns has alpha 1 and
\* RGB components in [0,1], with shading on or off.
C14_CompositeInUnitRange ==
    (IsComposite /\ ConfigColorsInUnitRange) =>
        /\ call.result[4] = One
        /\ \A k \in 1..3 : InUnitRange(call.result[k])

\* the same with shading off
CompositeInUnitRangeUnshaded ==
    (IsComposite /\ ConfigColorsInUnitRange /\ ~m_config.volumeShading) =>
        /\ call.result[4] = One
        /\ \A k \in 1..3 : InUnitRange(call.result[k])

\* a composite over two or more samples that is neither black nor white
CompositeBlends ==
    /\ IsComposite
    /\ ~m_config.volumeShading
    /\ FLeq(StepT(ray.tmin), ray.tmax)
    /\ \E k \in 1..3 : FLess(Zero, call.result[k]) /\ FLess(call.result[k], One)

(***************************************************************************)
(* Properties of the 2D transfer functions.                                *)
(***************************************************************************)
\* |intensity - c| / r, the distance from the center as a part of the radius
OffCenter(c, r, intensity) == FDiv(FAbs(FSub(intensity, Flt(c))), Flt(r))

\* strictly between the base corners, with a positive magnitude
OverBase(c, r, intensity, magnitude) ==
    /\ FLess(Flt(c - r), intensity) /\ FLess(intensity, Flt(c + r))
    /\ FLess(Zero, magnitude)

\* inside a tent whose boundary is 0 at the base corners and 255 at the center
InsideRisingTent(c, r, intensity, magnitude) ==
    /\ OverBase(c, r, intensity, magnitude)
    /\ FLess(FMul(Flt(255), FSub(One, OffCenter(c, r, intensity))), magnitude)

\* inside a tent whose boundary is 0 at the center and 255 at the base corners
InsideTent(c, r, intensity, magnitude) ==
    /\ OverBase(c, r, intensity, magnitude)
    /\ FLess(FMul(Flt(255), OffCenter(c, r, intensity)), magnitude)

IsTF2D == call.fn = "getTF2DOpacity"

\* C15 as stated: a point is inside iff it is over the base and its
\* magnitude exceeds a boundary that is 0 at the base corners and rises to
\* 255 at the center; getTF2DOpacity is 0 for every point not inside.
C15_TentRisesToCenter ==
    (IsTF2D /\ m_config.TF2DRadius > 0) =>
        LET inside == InsideRisingTent(m_config.TF2DIntensity, m_config.TF2DRadius,
                                       call.args[1], call.args[2])
        IN  /\ call.inside <=> inside
            /\ ~inside => call.result = Zero

\* C15 amended: a point is inside iff it is over the base and its magnitude
\* exceeds a boundary that is 0 at the center and rises to 255 at the base
\* corners; getTF2DOpacity is 0 for every point not inside.
C15_TentRisesToCorners ==
    (IsTF2D /\ m_config.TF2DRadius > 0) =>
        LET inside == InsideTent(m_config.TF2DIntensity, m_config.TF2DRadius,
                                 call.args[1], call.args[2])
        IN  /\ call.inside <=> inside
            /\ ~inside => call.result = Zero

\* C15 witness: a point over the base, off the center, below the boundary:
\* not inside, opacity 0.
C15_Witness ==
    /\ IsTF2D
    /\ OverBase(m_config.TF2DIntensity, m_config.TF2DRadius, call.args[1], call.args[2])
    /\ ~FEq(call.args[1], Flt(m_config.TF2DIntensity))
    /\ ~call.inside
    /\ call.result = Zero

\* C15 witness of a point inside, off the center
C15_WitnessInside ==
    /\ IsTF2D
    /\ ~FEq(call.args[1], Flt(m_config.TF2DIntensity))
    /\ call.inside
    /\ FLess(Zero, call.result) /\ FLess(call.result, One)

(***************************************************************************)
(* Properties of the 2D transfer functions, variant 2.                     *)
(***************************************************************************)
IsTF2DV2 == call.fn = "getTF2DV2"

\* the point of the call is inside triangle 0, inside triangle 1
InTriangle0 == inTriangle_0(call.args[1], call.args[2])

InTriangle1 == inTriangle_1(call.args[1], call.args[2])

\* the lookups answered with classifier 0, with classifier 1, with neither
Classifier0 ==
    /\ FEq(call.opacity, linearOpacity_0(call.args[1], call.args[2]))
    /\ call.color = m_config.TF2DV2Color_0

Classifier1 ==
    /\ FEq(call.opacity, linearOpacity_1(call.args[1], call.args[2]))
    /\ call.color = m_config.TF2DV2Color_1

NoClassifier == call.opacity = Zero /\ call.color = ZeroColor

C17_WitnessOnly1 == IsTF2DV2 /\ ~InTriangle0 /\ InTriangle1 /\ Classifier1

C17_WitnessNeither == IsTF2DV2 /\ ~InTriangle0 /\ ~InTriangle1 /\ NoClassifier

(***************************************************************************)
(* Properties of the isosurface ray marching.                              *)
(***************************************************************************)
\* the sample positions of the scan: tmin + k * sampleStep
ScanT(k) == <<ray.tmin[1] + k * sampleStep * ray.tmin[2], ray.tmin[2]>>

\* the k whose sample lies in [tmin, tmax]
ScanSteps == {k \in 0..(MaxDim + 1) : FLeq(ScanT(k), ray.tmax)}

\* the k whose sample exceeds isoValue
Crossings ==
    {k \in ScanSteps : getVoxelInterpolate(PointAt(ray, ScanT(k))) > VS * m_config.isoValue}

FirstCrossing == CHOOSE k \in Crossings : \A j \in Crossings : k <= j

\* the samples of a forward scan that stops at the first crossing
ScanToFirstCrossing ==
    LET count == IF Crossings = {} THEN Cardinality(ScanSteps) ELSE FirstCrossing + 1
    IN  [i \in 1..count |-> ScanT(i - 1)]

ISOReturned == call.fn = "traceRayISO" /\ call.pc = "returned"

\* bisectionAccuracy runs for traceRayISO and has sampled the volume
ISOBisecting ==
    /\ call.fn = "bisectionAccuracy" /\ "caller" \in DOMAIN call
    /\ call.maxIterations < MaxIterations

\* C18: traceRayISO samples forward from tmin in steps of sampleStep up to
\* the first sample that exceeds isoValue and no further; it returns
\* (0,0,0,0) iff no sample in [tmin,tmax] exceeds isoValue; without shading
\* it returns (0.8,0.8,0.2,1) otherwise; with shading it calls
\* bisectionAccuracy only when the crossing is not on the first sample, then
\* on [t-sampleStep, t], whose samples lie within that bracket.
C18_ScanToFirstCrossing ==
    /\ ISOReturned =>
          /\ call.samples = ScanToFirstCrossing
          /\ call.result = ZeroColor <=> Crossings = {}
          /\ (~m_config.volumeShading /\ Crossings # {}) => call.result = IsoColor
          /\ call.bisected # <<>> =>
                /\ m_config.volumeShading
                /\ Crossings # {} /\ FirstCrossing > 0
                /\ call.bisected = <<(<<ToFloat(ScanT(FirstCrossing - 1)),
                                        ToFloat(ScanT(FirstCrossing))>>)>>
    /\ ISOBisecting =>
          /\ FLeq(call.args[1], call.tMiddle)
          /\ FLeq(call.tMiddle, call.args[2])
          /\ FEq(call.args[2], ScanT(FirstCrossing))

\* with shading every crossing past the first sample is refined
BisectsEveryLaterCrossing ==
    (ISOReturned /\ m_config.volumeShading /\ Crossings # {} /\ FirstCrossing > 0)
        => call.bisected # <<>>

\* without shading the stepwise loop returns what traceRayISO returns
UnshadedAgrees ==
    (ISOReturned /\ ~m_config.volumeShading) => call.result = traceRayISO(ray)

\* C18 witness: a shaded ray whose crossing is on a later sample, refined by
\* bisectionAccuracy, while a sample of the interval past the crossing
\* was not taken.
C18_Witness ==
    /\ ISOReturned
    /\ m_config.volumeShading
    /\ call.bisected # <<>>
    /\ Len(call.samples) < Cardinality(ScanSteps)

\* C18 witnesses: a shaded crossing on the first sample; an unshaded hit;
\* a scan without a crossing
C18_WitnessFirstSample ==
    /\ ISOReturned /\ m_config.volumeShading
    /\ Crossings # {} /\ FirstCrossing = 0 /\ call.bisected = <<>>

C18_WitnessUnshaded ==
    /\ ISOReturned /\ ~m_config.volumeShading
    /\ Crossings # {} /\ FirstCrossing > 0 /\ call.result = IsoColor

C18_WitnessMiss ==
    /\ ISOReturned /\ Crossings = {} /\ Len(call.samples) > 1
    /\ call.result = ZeroColor

(***************************************************************************)
(* Properties of the histogram of a Volume.                                *)
(***************************************************************************)
\* a constructor has returned: the Volume is in the hands of its caller
Exposed == call.fn \in {"Volume(file)", "Volume(data)"}

\* the number of voxels with value v
VoxelsWithValue(v) == Cardinality({i \in 1..Len(m_data) : m_data[i] = v})

\* histogram[lo] + ... + histogram[hi], by halves
RECURSIVE SumOf(_, _, _)
SumOf(histogram, lo, hi) ==
    IF lo > hi THEN 0
    ELSE IF lo = hi THEN histogram[lo]
    ELSE LET mid == (lo + hi) \div 2
         IN  SumOf(histogram, lo, mid) + SumOf(histogram, mid + 1, hi)

HistogramMatches ==
    /\ Len(m_histogram) = maximum + 1
    /\ \A v \in 0..maximum : m_histogram[v + 1] = VoxelsWithValue(v)
    /\ SumOf(m_histogram, 1, Len(m_histogram)) = Len(m_data)

\* C16: every Volume a constructor has handed to its caller has a histogram
\* of length maximum()+1 whose entry v is the number of voxels with value v
\* and whose entries sum to the voxel count, a file-loaded Volume with an
\* empty data array included.
C16_HistogramMatches == Exposed => HistogramMatches

\* the same for the Volumes with at least one voxel
HistogramMatchesNonEmpty == Exposed /\ Len(m_data) > 0 => HistogramMatches

\* the scenario: data {0,0,1,1,1,2} has the histogram [2,3,1]
ScenarioHistogram == Exposed /\ m_data = ScenarioData => m_histogram = <<2, 3, 1>>

\* a file-loaded Volume without voxels
EmptyFromFile == call.fn = "Volume(file)" /\ m_data = <<>>

\* a Volume of the scenario's data
ScenarioBuilt == Exposed /\ m_data = ScenarioData

(***************************************************************************)
(* Properties of the Renderer's framebuffer.                               *)
(***************************************************************************)
ResX == m_config.renderResolution[1]

ResY == m_config.renderResolution[2]

AllBlack == \A i \in 1..Len(m_frameBuffer) : m_frameBuffer[i] = ZeroColor

\* what a render pass has to leave in the slot of the pixel (x, y)
ExpectedPixel(x, y) ==
    IF PixelRay(x, y).hit THEN PixelColor(PixelRay(x, y).ray) ELSE ZeroColor

PixelsRendered ==
    \A x \in 0..(ResX - 1), y \in 0..(ResY - 1) :
        m_frameBuffer[ResX * y + x + 1] = ExpectedPixel(x, y)

\* C1: after construction and after any sequence of setConfig(),
\* resetImage() and render() calls the framebuffer length equals
\* renderResolution.x * renderResolution.y of the stored config.
C1_FrameBufferLength ==
    Len(m_frameBuffer) = ResX * ResY

\* C1 witness: setConfig() has just changed the resolution to 1x2.
C1_Witness ==
    /\ last.op = "setConfig" /\ last.resized
    /\ m_config.renderResolution = <<1, 2>>
    /\ Len(m_frameBuffer) = 2

\* C2: after a setConfig() that changes the resolution every pixel of the
\* framebuffer is (0,0,0,0), whatever it held before.
C2_SetConfigZeroFills ==
    (last.op = "setConfig" /\ last.resized) => AllBlack

\* C3: render() overwrites the framebuffer: after it, a pixel whose ray
\* misses the bounds is (0,0,0,0) and any other pixel holds the color of the
\* active render mode, whatever the framebuffer held before; a render()
\* repeated with volume, camera and config unchanged leaves the same
\* framebuffer.
C3_RenderOverwrites ==
    last.op = "render" =>
        /\ PixelsRendered
        /\ (last.before # <<>> => m_frameBuffer = last.before)

\* C3 witness: a repeated render() has left an image with a black pixel of
\* a missing ray and a pixel that is not black.
C3_Witness ==
    /\ last.op = "render" /\ last.before # <<>>
    /\ \E x \in 0..(ResX - 1), y \in 0..(ResY - 1) :
          ~PixelRay(x, y).hit /\ m_frameBuffer[ResX * y + x + 1] = ZeroColor
    /\ \E i \in 1..Len(m_frameBuffer) : m_frameBuffer[i][1][1] > 0

(***************************************************************************)
(* Properties of the tile-parallel render pass.                            *)
(***************************************************************************)
\* the tile with rows and columns id = <<rows, cols>> holds the pixel (x, y)
InTile(id, x, y) ==
    /\ id[1][1] <= y /\ y < id[1][2]
    /\ id[2][1] <= x /\ x < id[2][2]

\* C4 as stated: in one render pass every pixel is written exactly once.
C4_EveryPixelWrittenOnce ==
    pc = "joined" => \A i \in 1..Len(writes) : Len(writes[i]) = 1

\* C4 amended: in one render pass, for every tile partition and every
\* interleaving of the tasks, no slot is written twice; the slot
\* res.x*y + x is written only by the task whose tile holds (x, y), exactly
\* once if the ray of (x, y) hits the bounds and never if it misses.
C4_EveryHitPixelWrittenOnce ==
    pc # "idle" =>
        /\ Len(writes) = ResX * ResY
        /\ \A i \in 1..Len(writes) : Len(writes[i]) <= 1
        /\ \A x \in 0..(ResX - 1), y \in 0..(ResY - 1) :
             LET w == writes[ResX * y + x + 1]
             IN  /\ w # <<>> => PixelRay(x, y).hit /\ InTile(w[1], x, y)
                 /\ pc = "joined" => (Len(w) = 1 <=> PixelRay(x, y).hit)

\* C4 witness: a pass of three tasks has ended, with a pixel written by
\* one of them and a pixel of a missing ray written by none.
C4_Witness ==
    /\ pc = "joined"
    /\ Cardinality(tiles) = 3
    /\ \E i \in 1..Len(writes) : Len(writes[i]) = 1
    /\ \E i \in 1..Len(writes) : Len(writes[i]) = 0

\* the framebuffer render() was called on
FrameBefore == [i \in 1..(ResX * ResY) |-> StaleColor]

\* C5: the tile-parallel loop, for any tile partition and any interleaving
\* of the tasks, leaves the framebuffer the sequential loop (x outer,
\* y inner) leaves for the same volume, camera and config.
C5_ParallelEqualsSequential ==
    pc = "joined" => m_frameBuffer = render(FrameBefore)

\* C5 witness: a pass of two or more tasks has ended with the image of the
\* sequential loop, which has a pixel that is not black.
C5_Witness ==
    /\ pc = "joined"
    /\ Cardinality(tiles) >= 2
    /\ m_frameBuffer = render(FrameBefore)
    /\ \E i \in 1..Len(m_frameBuffer) : m_frameBuffer[i][1][1] > 0

====
